---- MODULE Spec2Model ----
(***************************************************************************)
(* A model of cosmic-text's BufferLine (src/src/buffer_line.rs): one       *)
(* paragraph of text with its line ending, attribute list, alignment,      *)
(* shaping mode, per-line metadata and the two lazily filled caches        *)
(* shape_opt and layout_opt.                                               *)
(*                                                                         *)
(* Every method of BufferLine is an operator from the line (a record with  *)
(* the struct's fields) to a record [line, ret, built]: the line after the *)
(* call, the value returned, and which of the two computations             *)
(* (ShapeLine::build, ShapeLine::layout_to_buffer) the call ran.  Each     *)
(* action of the state machine is one call of one method.                  *)
(***************************************************************************)
EXTENDS Integers, Sequences, FiniteSets

VARIABLES
    line,           \* the BufferLine
    op,             \* name of the method called last ("new" after construction)
    args,           \* the arguments of that call
    ret,            \* what that call returned
    built,          \* which computations that call ran: [shape, layout : BOOLEAN]
    shaped_ending,  \* history: line.ending when the cached ShapeLine was built
    reclaimed,      \* history: reclaim_attrs/reclaim_text called since then
    before,         \* history: what append found: the line's ending and validity
    rejoin,         \* history: a split_off and the append of what it returned
    lines,          \* the BufferLines a LayoutRunIter walks
    started_at,     \* the start argument of LayoutRunIter::new
    iter,           \* the LayoutRunIter
    item,           \* what the last call of next() returned
    yielded,        \* history: the runs yielded so far and their layout lines
    ended,          \* history: why next() returned None the first time
    twin,           \* a second LayoutRunIter over the same lines
    twin_yielded,   \* history: the runs the second iterator has yielded
    rich,           \* the rich text the walked lines were laid out from
    layout_run,     \* the LayoutRun handed to render_decoration and highlight
    caller_color,   \* the default_color handed to render_decoration
    drawn,          \* the Renderer calls of the last render_decoration
    drawn_before,   \* history: the Renderer calls of the one before it
    cursors,        \* the cursor_start and cursor_end handed to highlight
    highlit,        \* what highlight returned
    group_from,     \* render_decoration's local group_start
    glyph_i,        \* render_decoration's loop index i
    render_pc       \* where render_decoration stands: idle, loop, done, panicked

line_vars == <<line, op, args, ret, built, shaped_ending, reclaimed>>
edit_vars == <<before, rejoin>>
iter_vars == <<lines, started_at, iter, item, yielded, ended, twin,
               twin_yielded>>
rich_vars == <<rich>>
loop_vars == <<group_from, glyph_i, render_pc>>
render_vars == <<layout_run, caller_color, drawn, drawn_before, cursors,
                 highlit, loop_vars>>

vars == <<line_vars, edit_vars, iter_vars, rich_vars, render_vars>>

----------------------------------------------------------------------------
(* Bounds and input domains *)

\* Longest text, in bytes (texts are ASCII: one byte per character).
MaxLen == 1

Chars == {"a", "b"}

RECURSIVE SeqsUpTo(_)
SeqsUpTo(n) ==
    IF n = 0 THEN {<<>>}
    ELSE LET s == SeqsUpTo(n - 1)
         IN  s \cup {Append(t, c) : t \in {u \in s : Len(u) = n - 1}, c \in Chars}

Texts == SeqsUpTo(MaxLen)

\* LineEnding.  The line stores and compares endings and nothing else, so
\* two of them besides None would add no behaviour.
Endings == {"None", "Lf"}

\* Shaping
Shapings == {"Basic", "Advanced"}

\* Option<T>
None == [some |-> FALSE]
Some(v) == [some |-> TRUE, val |-> v]

\* Option<Align>, likewise only stored and compared.
Aligns == {None, Some("Center")}

\* Attrs: Attrs::new() is "plain"; "bold" stands for any other attributes.
AttrsNew == "plain"

\* metadata values handed to set_metadata
Metas == {7}

\* tab_width arguments
TabWidths == {4, 8}

----------------------------------------------------------------------------
(* AttrsList: the default attributes and a range map from byte positions   *)
(* to attributes.  The range map coalesces equal neighbours, so it is      *)
(* determined by the attribute each covered position carries: spans is the *)
(* set of <<position, attributes>> pairs.                                  *)

AttrsListNew(defaults) == [defaults |-> defaults, spans |-> {}]

\* AttrsList::add_span(range, attrs): an empty range adds nothing, otherwise
\* the range is overwritten.
add_span(al, start, end, attrs) ==
    [al EXCEPT !.spans =
        {s \in @ : s[1] < start \/ s[1] >= end}
            \cup {<<p, attrs>> : p \in start .. (end - 1)}]

\* AttrsList::split_off(index): [head, tail]; the tail keeps the defaults and
\* the spans from index on, moved down by index.
attrs_split_off(al, index) ==
    [head |-> [al EXCEPT !.spans = {s \in @ : s[1] < index}],
     tail |-> [al EXCEPT !.spans =
                  {<<s[1] - index, s[2]>> : s \in {t \in @ : t[1] >= index}}]]

\* AttrsList::get_span(index): the attributes in effect at a byte position,
\* those of the span covering it or else the defaults.
get_span(al, index) ==
    IF \E s \in al.spans : s[1] = index
    THEN (CHOOSE s \in al.spans : s[1] = index)[2]
    ELSE al.defaults

\* The attribute lists handed to new, set_text, set_attrs_list, reset_new
\* and carried by appended lines, for a text: no span, or one span over the
\* first byte of the text.
AttrsLists(text) ==
    {AttrsListNew("plain")}
        \cup (IF Len(text) > 0
              THEN {add_span(AttrsListNew("plain"), 0, 1, "bold")}
              ELSE {})

----------------------------------------------------------------------------
(* Cached<T>: Empty, Unused (the retained storage of an earlier value,     *)
(* logically absent) or Used(value).                                       *)

CachedEmpty == [tag |-> "Empty"]
CachedUnused == [tag |-> "Unused"]
CachedUsed(v) == [tag |-> "Used", val |-> v]

\* Cached::get
cached_get(c) == IF c.tag = "Used" THEN Some(c.val) ELSE None

\* Cached::is_unused
is_unused(c) == c.tag # "Used"

\* Cached::set_unused: a used cell keeps its storage, the others stay.
set_unused(c) == IF c.tag = "Used" THEN CachedUnused ELSE c

\* Cached::set_used
set_used(c, v) == CachedUsed(v)

\* Cached::take_unused: the cell is left Empty when it was unused.
take_unused(c) == IF is_unused(c) THEN CachedEmpty ELSE c

----------------------------------------------------------------------------
(* The two computations the line caches.  Both are deterministic functions *)
(* of their arguments and are represented by them.                         *)

\* ShapeLine::build(font_system, text, attrs_list, shaping, tab_width)
ShapeLineBuild(text, attrs_list, shaping, tab_width) ==
    [text |-> text, attrs_list |-> attrs_list, shaping |-> shaping,
     tab_width |-> tab_width]

\* ShapeLine::layout_to_buffer(.., font_size, width_opt, wrap, ellipsize,
\*                             align, layout, match_mono_width, hinting)
LayoutToBuffer(shape_val, a, align) ==
    [shape |-> shape_val, font_size |-> a.font_size, width_opt |-> a.width_opt,
     wrap |-> a.wrap, ellipsize |-> a.ellipsize, align |-> align,
     match_mono_width |-> a.match_mono_width, hinting |-> a.hinting]

\* The argument lists handed to layout(): a base call and one that differs
\* from it in every argument.
LayoutArgsBase ==
    [font_size |-> 14, width_opt |-> None, wrap |-> "Word",
     ellipsize |-> "None", match_mono_width |-> None, tab_width |-> 8,
     hinting |-> "Disabled"]

LayoutArgs ==
    {LayoutArgsBase,
     [font_size |-> 20, width_opt |-> Some(100), wrap |-> "Glyph",
      ellipsize |-> "End", match_mono_width |-> Some(9), tab_width |-> 4,
      hinting |-> "Enabled"]}

----------------------------------------------------------------------------
(* Return values *)

Unit == [kind |-> "unit"]
Panic(msg) == [kind |-> "panic", val |-> msg]
Bool(b) == [kind |-> "bool", val |-> b]
Val(kind, v) == [kind |-> kind, val |-> v]

NoBuild == [shape |-> FALSE, layout |-> FALSE]

Out(l, r) == [line |-> l, ret |-> r, built |-> NoBuild]

----------------------------------------------------------------------------
(* BufferLine *)

\* BufferLine::new
new(text, ending, attrs_list, shaping) ==
    [text |-> text, ending |-> ending, attrs_list |-> attrs_list,
     align |-> None, shape_opt |-> CachedEmpty, layout_opt |-> CachedEmpty,
     shaping |-> shaping, metadata |-> None]

\* BufferLine::empty
empty == new(<<>>, "None", AttrsListNew(AttrsNew), "Advanced")

\* BufferLine::reset_layout
reset_layout(l) == [l EXCEPT !.layout_opt = set_unused(@)]

\* reset_shaping without its call of reset_layout.
reset_shaping_keeps_layout(l) == [l EXCEPT !.shape_opt = set_unused(@)]

\* BufferLine::reset_shaping
reset_shaping(l) == reset_layout([l EXCEPT !.shape_opt = set_unused(@)])

\* BufferLine::reset
reset(l) == reset_shaping([l EXCEPT !.metadata = None])

\* reset_new building the caches afresh, as new does.
reset_new_drops_caches(l, text, ending, attrs_list, shaping) ==
    [l EXCEPT !.text = text, !.ending = ending, !.attrs_list = attrs_list,
              !.align = None, !.shape_opt = CachedEmpty,
              !.layout_opt = CachedEmpty, !.shaping = shaping,
              !.metadata = None]

\* BufferLine::reset_new
reset_new(l, text, ending, attrs_list, shaping) ==
    [l EXCEPT !.text = text, !.ending = ending, !.attrs_list = attrs_list,
              !.align = None, !.shape_opt = set_unused(@),
              !.layout_opt = set_unused(@), !.shaping = shaping,
              !.metadata = None]

\* set_text without the comparison with the stored content.
set_text_unconditional(l, text, ending, attrs_list) ==
    Out(reset([l EXCEPT !.text = text, !.ending = ending,
                        !.attrs_list = attrs_list]), Bool(TRUE))

\* BufferLine::set_text
set_text(l, text, ending, attrs_list) ==
    IF text # l.text \/ ending # l.ending \/ attrs_list # l.attrs_list
    THEN Out(reset([l EXCEPT !.text = text, !.ending = ending,
                             !.attrs_list = attrs_list]), Bool(TRUE))
    ELSE Out(l, Bool(FALSE))

\* set_ending calling reset_layout where it should call reset_shaping.
set_ending_layout_only(l, ending) ==
    IF ending # l.ending
    THEN Out(reset_layout([l EXCEPT !.ending = ending]), Bool(TRUE))
    ELSE Out(l, Bool(FALSE))

\* BufferLine::set_ending
set_ending(l, ending) ==
    IF ending # l.ending
    THEN Out(reset_shaping([l EXCEPT !.ending = ending]), Bool(TRUE))
    ELSE Out(l, Bool(FALSE))

\* BufferLine::set_attrs_list
set_attrs_list(l, attrs_list) ==
    IF attrs_list # l.attrs_list
    THEN Out(reset_shaping([l EXCEPT !.attrs_list = attrs_list]), Bool(TRUE))
    ELSE Out(l, Bool(FALSE))

\* set_align calling reset_shaping where it should call reset_layout.
set_align_resets_shaping(l, align) ==
    IF align # l.align
    THEN Out(reset_shaping([l EXCEPT !.align = align]), Bool(TRUE))
    ELSE Out(l, Bool(FALSE))

\* BufferLine::set_align
set_align(l, align) ==
    IF align # l.align
    THEN Out(reset_layout([l EXCEPT !.align = align]), Bool(TRUE))
    ELSE Out(l, Bool(FALSE))

\* The spans of other, moved up by len and added one position at a time
\* (the loop over other.attrs_list.spans_iter() in append).
append_spans(al, other_al, len) ==
    [al EXCEPT !.spans =
        {s \in @ : \A o \in other_al.spans : o[1] + len # s[1]}
            \cup {<<o[1] + len, o[2]>> : o \in other_al.spans}]

\* append without its closing call of reset.
append_without_reset(l, other) ==
    LET len == Len(l.text)
        al1 == IF other.attrs_list.defaults # l.attrs_list.defaults
               THEN add_span(l.attrs_list, len, len + Len(other.text),
                             other.attrs_list.defaults)
               ELSE l.attrs_list
    IN  [l EXCEPT !.text = @ \o other.text,
                  !.ending = other.ending,
                  !.attrs_list = append_spans(al1, other.attrs_list, len)]

\* append returning early when other brings no text and no new ending.
append_returns_early(l, other) ==
    LET len == Len(l.text)
        al1 == IF other.attrs_list.defaults # l.attrs_list.defaults
               THEN add_span(l.attrs_list, len, len + Len(other.text),
                             other.attrs_list.defaults)
               ELSE l.attrs_list
    IN  IF other.text = <<>> /\ other.ending = l.ending
        THEN l
        ELSE reset([l EXCEPT !.text = @ \o other.text,
                             !.ending = other.ending,
                             !.attrs_list =
                                 append_spans(al1, other.attrs_list, len)])

\* append without the span that carries other's defaults.
append_without_defaults_span(l, other) ==
    reset([l EXCEPT !.text = @ \o other.text,
                    !.ending = other.ending,
                    !.attrs_list =
                        append_spans(l.attrs_list, other.attrs_list,
                                     Len(l.text))])

\* BufferLine::append
append(l, other) ==
    LET len == Len(l.text)
        al1 == IF other.attrs_list.defaults # l.attrs_list.defaults
               THEN add_span(l.attrs_list, len, len + Len(other.text),
                             other.attrs_list.defaults)
               ELSE l.attrs_list
    IN  reset([l EXCEPT !.text = @ \o other.text,
                        !.ending = other.ending,
                        !.attrs_list = append_spans(al1, other.attrs_list, len)])

\* split_off without new.align = self.align.
split_off_without_align(l, index) ==
    IF index > Len(l.text)
    THEN Out(l, Panic("split_off"))
    ELSE LET sp == attrs_split_off(l.attrs_list, index)
             tail == new(SubSeq(l.text, index + 1, Len(l.text)), l.ending,
                         sp.tail, l.shaping)
         IN  Out([reset([l EXCEPT !.text = SubSeq(@, 1, index),
                                  !.attrs_list = sp.head])
                     EXCEPT !.ending = "None"],
                 Val("line", tail))

\* split_off with self.ending = LineEnding::None moved before the
\* construction of the new line.
split_off_clears_ending_first(l, index) ==
    IF index > Len(l.text)
    THEN Out(l, Panic("split_off"))
    ELSE LET sp == attrs_split_off(l.attrs_list, index)
             tail == [new(SubSeq(l.text, index + 1, Len(l.text)), "None",
                          sp.tail, l.shaping) EXCEPT !.align = l.align]
         IN  Out([reset([l EXCEPT !.text = SubSeq(@, 1, index),
                                  !.attrs_list = sp.head])
                     EXCEPT !.ending = "None"],
                 Val("line", tail))

\* split_off with the index clamped to the length of the text.
split_off_clamped(l, index) ==
    LET at == IF index > Len(l.text) THEN Len(l.text) ELSE index
        sp == attrs_split_off(l.attrs_list, at)
        tail == [new(SubSeq(l.text, at + 1, Len(l.text)), l.ending,
                     sp.tail, l.shaping) EXCEPT !.align = l.align]
    IN  Out([reset([l EXCEPT !.text = SubSeq(@, 1, at),
                             !.attrs_list = sp.head])
                EXCEPT !.ending = "None"],
            Val("line", tail))

\* BufferLine::split_off: [line, ret]; an index past the end of the text is
\* String::split_off's panic, raised before anything is changed.
split_off(l, index) ==
    IF index > Len(l.text)
    THEN Out(l, Panic("split_off"))
    ELSE LET sp == attrs_split_off(l.attrs_list, index)
             tail == [new(SubSeq(l.text, index + 1, Len(l.text)), l.ending,
                          sp.tail, l.shaping) EXCEPT !.align = l.align]
         IN  Out([reset([l EXCEPT !.text = SubSeq(@, 1, index),
                                  !.attrs_list = sp.head])
                     EXCEPT !.ending = "None"],
                 Val("line", tail))

\* shape with layout_opt.set_unused() moved out of the if.
shape_always_clears_layout(l, tab_width) ==
    LET rebuild == is_unused(l.shape_opt)
        l1 == IF rebuild
              THEN [l EXCEPT
                      !.shape_opt = set_used(take_unused(@),
                          ShapeLineBuild(l.text, l.attrs_list, l.shaping,
                                         tab_width)),
                      !.layout_opt = set_unused(@)]
              ELSE [l EXCEPT !.layout_opt = set_unused(@)]
        got == cached_get(l1.shape_opt)
    IN  [line |-> l1,
         ret |-> IF got.some THEN Val("shape", got.val)
                 ELSE Panic("shape not found"),
         built |-> [shape |-> rebuild, layout |-> FALSE]]

\* shape without the is_unused test: the ShapeLine is rebuilt on every call.
shape_always_rebuilds(l, tab_width) ==
    LET l1 == [l EXCEPT
                 !.shape_opt = set_used(take_unused(@),
                     ShapeLineBuild(l.text, l.attrs_list, l.shaping,
                                    tab_width)),
                 !.layout_opt = set_unused(@)]
    IN  [line |-> l1,
         ret |-> Val("shape", l1.shape_opt.val),
         built |-> [shape |-> TRUE, layout |-> FALSE]]

\* BufferLine::shape
shape(l, tab_width) ==
    LET rebuild == is_unused(l.shape_opt)
        l1 == IF rebuild
              THEN [l EXCEPT
                      !.shape_opt = set_used(take_unused(@),
                          ShapeLineBuild(l.text, l.attrs_list, l.shaping,
                                         tab_width)),
                      !.layout_opt = set_unused(@)]
              ELSE l
        got == cached_get(l1.shape_opt)
    IN  [line |-> l1,
         ret |-> IF got.some THEN Val("shape", got.val)
                 ELSE Panic("shape not found"),
         built |-> [shape |-> rebuild, layout |-> FALSE]]

\* layout that also recomputes a valid cache whose font size is not the
\* one asked for.
layout_compares_args(l, a) ==
    LET relayout == \/ is_unused(l.layout_opt)
                    \/ l.layout_opt.val.font_size # a.font_size
        align == l.align
        taken == [l EXCEPT !.layout_opt = take_unused(@)]
        sh == shape(taken, a.tab_width)
        l1 == IF ~relayout THEN l
              ELSE IF sh.ret.kind = "panic" THEN sh.line
              ELSE [sh.line EXCEPT !.layout_opt =
                       set_used(@, LayoutToBuffer(sh.ret.val, a, align))]
        got == cached_get(l1.layout_opt)
    IN  [line |-> l1,
         ret |-> IF relayout /\ sh.ret.kind = "panic" THEN sh.ret
                 ELSE IF got.some THEN Val("layout", got.val)
                 ELSE Panic("layout not found"),
         built |-> [shape |-> relayout /\ sh.built.shape, layout |-> relayout]]

\* BufferLine::layout
layout(l, a) ==
    LET relayout == is_unused(l.layout_opt)
        align == l.align
        taken == [l EXCEPT !.layout_opt = take_unused(@)]
        sh == shape(taken, a.tab_width)
        l1 == IF ~relayout THEN l
              ELSE IF sh.ret.kind = "panic" THEN sh.line
              ELSE [sh.line EXCEPT !.layout_opt =
                       set_used(@, LayoutToBuffer(sh.ret.val, a, align))]
        got == cached_get(l1.layout_opt)
    IN  [line |-> l1,
         ret |-> IF relayout /\ sh.ret.kind = "panic" THEN sh.ret
                 ELSE IF got.some THEN Val("layout", got.val)
                 ELSE Panic("layout not found"),
         built |-> [shape |-> relayout /\ sh.built.shape, layout |-> relayout]]

\* BufferLine::shape_opt
shape_opt(l) == cached_get(l.shape_opt)

\* BufferLine::layout_opt
layout_opt(l) == cached_get(l.layout_opt)

\* BufferLine::metadata
metadata(l) == l.metadata

\* BufferLine::set_metadata
set_metadata(l, m) == [l EXCEPT !.metadata = Some(m)]

\* BufferLine::reclaim_attrs
reclaim_attrs(l) ==
    Out([l EXCEPT !.attrs_list = AttrsListNew(AttrsNew)],
        Val("attrs_list", l.attrs_list))

\* BufferLine::reclaim_text: the text is taken and returned cleared.
reclaim_text(l) == Out([l EXCEPT !.text = <<>>], Val("text", <<>>))

----------------------------------------------------------------------------
(* LayoutRunIter::new, as far as BufferLine::layout_runs uses it: the      *)
(* iterator starts at line 0, layout line 0, with nothing accumulated.     *)

\* LayoutRunIter::new taking the line to start at to be the first.
LayoutRunIterNew_at_first_line(height_opt, line_height, scroll, start) ==
    [height_opt |-> height_opt, line_height |-> line_height,
     scroll |-> scroll, line_i |-> 0, layout_i |-> 0,
     total_height |-> 0, line_top |-> 0]

LayoutRunIterNew(height_opt, line_height, scroll, start) ==
    [height_opt |-> height_opt, line_height |-> line_height,
     scroll |-> scroll, line_i |-> start, layout_i |-> 0,
     total_height |-> 0, line_top |-> 0]

\* BufferLine::layout_runs
layout_runs(l, height_opt, line_height) ==
    LayoutRunIterNew(height_opt, line_height, 0, 0)

----------------------------------------------------------------------------
(* LayoutRunIter::next.  The iterator reads of each BufferLine shape_opt() *)
(* and layout_opt(), of the ShapeLine rtl, and of each LayoutLine          *)
(* line_height_opt, max_ascent and max_descent; the slices a LayoutRun     *)
(* borrows (text, glyphs, decorations) and line_w are copied through and   *)
(* are left out.  Lengths are f32 in the source; here they are integers    *)
(* counting half pixels and the inputs are whole pixels, so that the       *)
(* halving in centering_offset is exact, as it is in f32 for such values.  *)

\* unwrap_or giving the default whatever the option holds.
unwrap_or_ignores_value(o, d) == d

\* Option::unwrap_or
unwrap_or(o, d) == IF o.some THEN o.val ELSE d

\* The outcome of one call of next: the iterator after it, the item
\* returned, the index in its line's layout of the LayoutLine yielded, and
\* which return statement was taken.
IterOut(it, i, layout_i, why) ==
    [iter |-> it, item |-> i, layout_i |-> layout_i, why |-> why]

\* next without the test that skips a line lying above the window.
RECURSIVE next_without_skip(_, _)
next_without_skip(ls, it) ==
    IF it.line_i >= Len(ls) THEN IterOut(it, None, 0, "end")
    ELSE
    LET l == ls[it.line_i + 1]
        shaped == shape_opt(l)
        laid == layout_opt(l)
    IN
    IF ~shaped.some \/ ~laid.some THEN IterOut(it, None, 0, "cache")
    ELSE IF it.layout_i >= Len(laid.val)
    THEN next_without_skip(ls, [it EXCEPT !.line_i = @ + 1, !.layout_i = 0])
    ELSE
    LET layout_line == laid.val[it.layout_i + 1]
        line_height == unwrap_or(layout_line.line_height_opt, it.line_height)
        it1 == [it EXCEPT !.layout_i = @ + 1,
                          !.total_height = @ + line_height]
        line_top == it.line_top - it.scroll
        glyph_height == layout_line.max_ascent + layout_line.max_descent
        centering_offset == (line_height - glyph_height) \div 2
        line_y == line_top + centering_offset + layout_line.max_ascent
    IN
    IF it.height_opt.some
          /\ line_y - layout_line.max_ascent > it.height_opt.val
    THEN IterOut(it1, None, 0, "cutoff")
    ELSE IterOut([it1 EXCEPT !.line_top = @ + line_height],
                 Some([line_i |-> it.line_i, rtl |-> shaped.val.rtl,
                       line_y |-> line_y, line_top |-> line_top,
                       line_height |-> line_height]),
                 it.layout_i, "run")

\* next stepping over a BufferLine without caches: it returns None there
\* and goes on with the following line when called again.
RECURSIVE next_passes_uncached(_, _)
next_passes_uncached(ls, it) ==
    IF it.line_i >= Len(ls) THEN IterOut(it, None, 0, "end")
    ELSE
    LET l == ls[it.line_i + 1]
        shaped == shape_opt(l)
        laid == layout_opt(l)
    IN
    IF ~shaped.some \/ ~laid.some
    THEN IterOut([it EXCEPT !.line_i = @ + 1, !.layout_i = 0], None, 0,
                 "cache")
    ELSE IF it.layout_i >= Len(laid.val)
    THEN next_passes_uncached(ls, [it EXCEPT !.line_i = @ + 1,
                                             !.layout_i = 0])
    ELSE
    LET layout_line == laid.val[it.layout_i + 1]
        line_height == unwrap_or(layout_line.line_height_opt, it.line_height)
        it1 == [it EXCEPT !.layout_i = @ + 1,
                          !.total_height = @ + line_height]
        line_top == it.line_top - it.scroll
        glyph_height == layout_line.max_ascent + layout_line.max_descent
        centering_offset == (line_height - glyph_height) \div 2
        line_y == line_top + centering_offset + layout_line.max_ascent
    IN
    IF it.height_opt.some
          /\ line_y - layout_line.max_ascent > it.height_opt.val
    THEN IterOut(it1, None, 0, "cutoff")
    ELSE
    LET it2 == [it1 EXCEPT !.line_top = @ + line_height]
    IN
    IF line_y + layout_line.max_descent < 0
    THEN next_passes_uncached(ls, it2)
    ELSE IterOut(it2,
                 Some([line_i |-> it.line_i, rtl |-> shaped.val.rtl,
                       line_y |-> line_y, line_top |-> line_top,
                       line_height |-> line_height]),
                 it.layout_i, "run")

\* next with self.layout_i += 1 left out where a run is returned.
RECURSIVE next_stays_on_run(_, _)
next_stays_on_run(ls, it) ==
    IF it.line_i >= Len(ls) THEN IterOut(it, None, 0, "end")
    ELSE
    LET l == ls[it.line_i + 1]
        shaped == shape_opt(l)
        laid == layout_opt(l)
    IN
    IF ~shaped.some \/ ~laid.some THEN IterOut(it, None, 0, "cache")
    ELSE IF it.layout_i >= Len(laid.val)
    THEN next_stays_on_run(ls, [it EXCEPT !.line_i = @ + 1, !.layout_i = 0])
    ELSE
    LET layout_line == laid.val[it.layout_i + 1]
        line_height == unwrap_or(layout_line.line_height_opt, it.line_height)
        it1 == [it EXCEPT !.layout_i = @ + 1,
                          !.total_height = @ + line_height]
        line_top == it.line_top - it.scroll
        glyph_height == layout_line.max_ascent + layout_line.max_descent
        centering_offset == (line_height - glyph_height) \div 2
        line_y == line_top + centering_offset + layout_line.max_ascent
    IN
    IF it.height_opt.some
          /\ line_y - layout_line.max_ascent > it.height_opt.val
    THEN IterOut(it1, None, 0, "cutoff")
    ELSE
    LET it2 == [it1 EXCEPT !.line_top = @ + line_height]
    IN
    IF line_y + layout_line.max_descent < 0
    THEN next_stays_on_run(ls, it2)
    ELSE IterOut([it2 EXCEPT !.layout_i = it.layout_i],
                 Some([line_i |-> it.line_i, rtl |-> shaped.val.rtl,
                       line_y |-> line_y, line_top |-> line_top,
                       line_height |-> line_height]),
                 it.layout_i, "run")

\* next with the skip test moved before self.line_top += line_height.
RECURSIVE next_skip_keeps_top(_, _)
next_skip_keeps_top(ls, it) ==
    IF it.line_i >= Len(ls) THEN IterOut(it, None, 0, "end")
    ELSE
    LET l == ls[it.line_i + 1]
        shaped == shape_opt(l)
        laid == layout_opt(l)
    IN
    IF ~shaped.some \/ ~laid.some THEN IterOut(it, None, 0, "cache")
    ELSE IF it.layout_i >= Len(laid.val)
    THEN next_skip_keeps_top(ls, [it EXCEPT !.line_i = @ + 1,
                                            !.layout_i = 0])
    ELSE
    LET layout_line == laid.val[it.layout_i + 1]
        line_height == unwrap_or(layout_line.line_height_opt, it.line_height)
        it1 == [it EXCEPT !.layout_i = @ + 1,
                          !.total_height = @ + line_height]
        line_top == it.line_top - it.scroll
        glyph_height == layout_line.max_ascent + layout_line.max_descent
        centering_offset == (line_height - glyph_height) \div 2
        line_y == line_top + centering_offset + layout_line.max_ascent
    IN
    IF it.height_opt.some
          /\ line_y - layout_line.max_ascent > it.height_opt.val
    THEN IterOut(it1, None, 0, "cutoff")
    ELSE IF line_y + layout_line.max_descent < 0
    THEN next_skip_keeps_top(ls, it1)
    ELSE IterOut([it1 EXCEPT !.line_top = @ + line_height],
                 Some([line_i |-> it.line_i, rtl |-> shaped.val.rtl,
                       line_y |-> line_y, line_top |-> line_top,
                       line_height |-> line_height]),
                 it.layout_i, "run")

\* <LayoutRunIter as Iterator>::next.  The two loops are the recursion: a
\* skipped LayoutLine and an exhausted BufferLine go round again.
RECURSIVE next(_, _)
next(ls, it) ==
    IF it.line_i >= Len(ls) THEN IterOut(it, None, 0, "end")
    ELSE
    LET l == ls[it.line_i + 1]
        shaped == shape_opt(l)
        laid == layout_opt(l)
    IN
    IF ~shaped.some \/ ~laid.some THEN IterOut(it, None, 0, "cache")
    ELSE IF it.layout_i >= Len(laid.val)
    THEN next(ls, [it EXCEPT !.line_i = @ + 1, !.layout_i = 0])
    ELSE
    LET layout_line == laid.val[it.layout_i + 1]
        line_height == unwrap_or(layout_line.line_height_opt, it.line_height)
        it1 == [it EXCEPT !.layout_i = @ + 1,
                          !.total_height = @ + line_height]
        line_top == it.line_top - it.scroll
        glyph_height == layout_line.max_ascent + layout_line.max_descent
        centering_offset == (line_height - glyph_height) \div 2
        line_y == line_top + centering_offset + layout_line.max_ascent
    IN
    IF it.height_opt.some
          /\ line_y - layout_line.max_ascent > it.height_opt.val
    THEN IterOut(it1, None, 0, "cutoff")
    ELSE
    LET it2 == [it1 EXCEPT !.line_top = @ + line_height]
    IN
    IF line_y + layout_line.max_descent < 0
    THEN next(ls, it2)
    ELSE IterOut(it2,
                 Some([line_i |-> it.line_i, rtl |-> shaped.val.rtl,
                       line_y |-> line_y, line_top |-> line_top,
                       line_height |-> line_height]),
                 it.layout_i, "run")

----------------------------------------------------------------------------
(* render_decoration (src/src/render.rs).  What it does to the Renderer is *)
(* the sequence of calls it makes, each a record [op, x, y, w, h, color].  *)
(* f32 lengths are integers counting half pixels; thickness and offset of  *)
(* the metrics are factors in halves, and font sizes are whole pixels, so  *)
(* that their products are exact.                                          *)

\* a * b of two f32 in halves
mul(a, b) == (a * b) \div 2

\* f32::max
max(a, b) == IF a >= b THEN a ELSE b

\* f32::ceil: the least whole number of pixels not below v, in halves
ceil(v) == 2 * (-((-v) \div 2))

\* v as i32: the whole pixels of v, towards zero.  (The cast saturates at
\* the ends of i32, which no length of the model comes near.)
as_i32(v) == IF v >= 0 THEN v \div 2 ELSE -((-v) \div 2)

\* v as u32: the whole pixels of v, towards zero, and 0 for a negative v.
as_u32(v) == IF v <= 0 THEN 0 ELSE v \div 2

\* Option::or
option_or(a, b) == IF a.some THEN a ELSE b

\* Renderer::rectangle(x, y, w, h, color), as a call made
rectangle(x, y, w, h, color) ==
    [op |-> "rectangle", x |-> x, y |-> y, w |-> w, h |-> h, color |-> color]

\* draw_decoration_group drawing every group wider than nothing, also one
\* that comes to no whole pixel.
draw_decoration_group_any_width(run, glyphs, default_color) ==
    IF glyphs = <<>> THEN <<>>
    ELSE
    LET first == glyphs[1]
        last == glyphs[Len(glyphs)]
    IN
    IF ~first.decoration_data.some THEN <<>>
    ELSE
    LET deco == first.decoration_data.val
        td == deco.text_decoration
        font_size == first.font_size
        x_start == first.x
        x_end == last.x + last.w
        width == x_end - x_start
        w == as_u32(width)
        u_color == unwrap_or(option_or(td.underline_color_opt,
                                       first.color_opt), default_color)
        u_thickness == ceil(max(mul(deco.underline_metrics.thickness,
                                    font_size), 2))
        u_gap == u_thickness
        u_y == run.line_y - mul(deco.underline_metrics.offset, font_size)
        s_color == unwrap_or(option_or(td.strikethrough_color_opt,
                                       first.color_opt), default_color)
        s_thickness == ceil(max(mul(deco.strikethrough_metrics.thickness,
                                    font_size), 2))
        s_y == run.line_y - mul(deco.strikethrough_metrics.offset, font_size)
        o_color == unwrap_or(option_or(td.overline_color_opt,
                                       first.color_opt), default_color)
        o_y == run.line_top
    IN
    IF width <= 0 THEN <<>>
    ELSE
    (IF td.underline = "Single"
     THEN <<rectangle(as_i32(x_start), as_i32(u_y), w, as_u32(u_thickness),
                      u_color)>>
     ELSE IF td.underline = "Double"
     THEN <<rectangle(as_i32(x_start), as_i32(u_y), w, as_u32(u_thickness),
                      u_color),
            rectangle(as_i32(x_start), as_i32(u_y + u_thickness + u_gap), w,
                      as_u32(u_thickness), u_color)>>
     ELSE <<>>)
    \o (IF td.strikethrough
        THEN <<rectangle(as_i32(x_start), as_i32(s_y), w,
                         as_u32(s_thickness), s_color)>>
        ELSE <<>>)
    \o (IF td.overline
        THEN <<rectangle(as_i32(x_start), as_i32(o_y), w,
                         as_u32(u_thickness), o_color)>>
        ELSE <<>>)

\* draw_decoration_group taking every colour from the underline.
draw_decoration_group_one_color(run, glyphs, default_color) ==
    IF glyphs = <<>> THEN <<>>
    ELSE
    LET first == glyphs[1]
        last == glyphs[Len(glyphs)]
    IN
    IF ~first.decoration_data.some THEN <<>>
    ELSE
    LET deco == first.decoration_data.val
        td == deco.text_decoration
        font_size == first.font_size
        x_start == first.x
        x_end == last.x + last.w
        width == x_end - x_start
        w == as_u32(width)
        color == unwrap_or(option_or(td.underline_color_opt,
                                     first.color_opt), default_color)
        u_thickness == ceil(max(mul(deco.underline_metrics.thickness,
                                    font_size), 2))
        u_y == run.line_y - mul(deco.underline_metrics.offset, font_size)
        s_thickness == ceil(max(mul(deco.strikethrough_metrics.thickness,
                                    font_size), 2))
        s_y == run.line_y - mul(deco.strikethrough_metrics.offset, font_size)
    IN
    IF width <= 0 THEN <<>>
    ELSE IF w = 0 THEN <<>>
    ELSE
    (IF td.underline = "Single"
     THEN <<rectangle(as_i32(x_start), as_i32(u_y), w, as_u32(u_thickness),
                      color)>>
     ELSE IF td.underline = "Double"
     THEN <<rectangle(as_i32(x_start), as_i32(u_y), w, as_u32(u_thickness),
                      color),
            rectangle(as_i32(x_start),
                      as_i32(u_y + u_thickness + u_thickness), w,
                      as_u32(u_thickness), color)>>
     ELSE <<>>)
    \o (IF td.strikethrough
        THEN <<rectangle(as_i32(x_start), as_i32(s_y), w,
                         as_u32(s_thickness), color)>>
        ELSE <<>>)
    \o (IF td.overline
        THEN <<rectangle(as_i32(x_start), as_i32(run.line_top), w,
                         as_u32(u_thickness), color)>>
        ELSE <<>>)

\* draw_decoration_group taking font size and colour from the last glyph
\* of the group.
draw_decoration_group_last_glyph(run, glyphs, default_color) ==
    IF glyphs = <<>> THEN <<>>
    ELSE
    LET first == glyphs[1]
        last == glyphs[Len(glyphs)]
    IN
    IF ~first.decoration_data.some THEN <<>>
    ELSE
    LET deco == first.decoration_data.val
        td == deco.text_decoration
        font_size == last.font_size
        x_start == first.x
        x_end == last.x + last.w
        width == x_end - x_start
        w == as_u32(width)
        u_color == unwrap_or(option_or(td.underline_color_opt,
                                       last.color_opt), default_color)
        u_thickness == ceil(max(mul(deco.underline_metrics.thickness,
                                    font_size), 2))
        u_gap == u_thickness
        u_y == run.line_y - mul(deco.underline_metrics.offset, font_size)
        s_color == unwrap_or(option_or(td.strikethrough_color_opt,
                                       last.color_opt), default_color)
        s_thickness == ceil(max(mul(deco.strikethrough_metrics.thickness,
                                    font_size), 2))
        s_y == run.line_y - mul(deco.strikethrough_metrics.offset, font_size)
        o_color == unwrap_or(option_or(td.overline_color_opt,
                                       last.color_opt), default_color)
        o_y == run.line_top
    IN
    IF width <= 0 THEN <<>>
    ELSE IF w = 0 THEN <<>>
    ELSE
    (IF td.underline = "Single"
     THEN <<rectangle(as_i32(x_start), as_i32(u_y), w, as_u32(u_thickness),
                      u_color)>>
     ELSE IF td.underline = "Double"
     THEN <<rectangle(as_i32(x_start), as_i32(u_y), w, as_u32(u_thickness),
                      u_color),
            rectangle(as_i32(x_start), as_i32(u_y + u_thickness + u_gap), w,
                      as_u32(u_thickness), u_color)>>
     ELSE <<>>)
    \o (IF td.strikethrough
        THEN <<rectangle(as_i32(x_start), as_i32(s_y), w,
                         as_u32(s_thickness), s_color)>>
        ELSE <<>>)
    \o (IF td.overline
        THEN <<rectangle(as_i32(x_start), as_i32(o_y), w,
                         as_u32(u_thickness), o_color)>>
        ELSE <<>>)

\* draw_decoration_group.  Each feature computes its own colour and
\* thickness; the overline's thickness is the underline's.
draw_decoration_group(run, glyphs, default_color) ==
    IF glyphs = <<>> THEN <<>>
    ELSE
    LET first == glyphs[1]
        last == glyphs[Len(glyphs)]
    IN
    IF ~first.decoration_data.some THEN <<>>
    ELSE
    LET deco == first.decoration_data.val
        td == deco.text_decoration
        font_size == first.font_size
        x_start == first.x
        x_end == last.x + last.w
        width == x_end - x_start
        w == as_u32(width)
        u_color == unwrap_or(option_or(td.underline_color_opt,
                                       first.color_opt), default_color)
        u_thickness == ceil(max(mul(deco.underline_metrics.thickness,
                                    font_size), 2))
        u_gap == u_thickness
        u_y == run.line_y - mul(deco.underline_metrics.offset, font_size)
        s_color == unwrap_or(option_or(td.strikethrough_color_opt,
                                       first.color_opt), default_color)
        s_thickness == ceil(max(mul(deco.strikethrough_metrics.thickness,
                                    font_size), 2))
        s_y == run.line_y - mul(deco.strikethrough_metrics.offset, font_size)
        o_color == unwrap_or(option_or(td.overline_color_opt,
                                       first.color_opt), default_color)
        o_y == run.line_top
    IN
    IF width <= 0 THEN <<>>
    ELSE IF w = 0 THEN <<>>
    ELSE
    (IF td.underline = "Single"
     THEN <<rectangle(as_i32(x_start), as_i32(u_y), w, as_u32(u_thickness),
                      u_color)>>
     ELSE IF td.underline = "Double"
     THEN <<rectangle(as_i32(x_start), as_i32(u_y), w, as_u32(u_thickness),
                      u_color),
            rectangle(as_i32(x_start), as_i32(u_y + u_thickness + u_gap), w,
                      as_u32(u_thickness), u_color)>>
     ELSE <<>>)
    \o (IF td.strikethrough
        THEN <<rectangle(as_i32(x_start), as_i32(s_y), w,
                         as_u32(s_thickness), s_color)>>
        ELSE <<>>)
    \o (IF td.overline
        THEN <<rectangle(as_i32(x_start), as_i32(o_y), w,
                         as_u32(u_thickness), o_color)>>
        ELSE <<>>)

\* The loop of render_decoration from glyph i (counted from 0) on, with
\* group_start as it stands.
RECURSIVE render_decoration_from(_, _, _, _)
render_decoration_from(run, i, group_start, default_color) ==
    IF i >= Len(run.glyphs)
    THEN IF group_start.some
         THEN draw_decoration_group(run,
                  SubSeq(run.glyphs, group_start.val + 1, Len(run.glyphs)),
                  default_color)
         ELSE <<>>
    ELSE
    LET glyph == run.glyphs[i + 1]
        start_new_group ==
            IF ~group_start.some THEN TRUE
            ELSE glyph.decoration_data # run.glyphs[i].decoration_data
    IN
    IF start_new_group
    THEN (IF group_start.some
          THEN draw_decoration_group(run,
                   SubSeq(run.glyphs, group_start.val + 1, i), default_color)
          ELSE <<>>)
         \o render_decoration_from(run, i + 1,
                IF glyph.decoration_data.some THEN Some(i) ELSE None,
                default_color)
    ELSE render_decoration_from(run, i + 1, group_start, default_color)

\* render_decoration
render_decoration(run, default_color) ==
    IF run.glyphs = <<>> THEN <<>>
    ELSE render_decoration_from(run, 0, None, default_color)

----------------------------------------------------------------------------
(* LayoutRun::highlight (src/src/buffer_line.rs).                          *)

\* Cursor::new_with_affinity
Cursor(line_i, index, affinity) ==
    [line |-> line_i, index |-> index, affinity |-> affinity]

\* Cursor's order: by line, then by index, then Before ahead of After.
cursor_le(a, b) ==
    \/ a.line < b.line
    \/ /\ a.line = b.line
       /\ \/ a.index < b.index
          \/ /\ a.index = b.index
             /\ (a.affinity = "Before" \/ b.affinity = "After")

cursor_from_glyph_left(run, glyph) ==
    IF run.rtl THEN Cursor(run.line_i, glyph.end, "Before")
    ELSE Cursor(run.line_i, glyph.start, "After")

cursor_from_glyph_right(run, glyph) ==
    IF run.rtl THEN Cursor(run.line_i, glyph.start, "After")
    ELSE Cursor(run.line_i, glyph.end, "Before")

\* highlight's loop from glyph i (counted from 1) on, with x_start and x_end
\* as they stand.
RECURSIVE highlight_from(_, _, _, _, _, _)
highlight_from(run, i, cursor_start, cursor_end, x_start, x_end) ==
    IF i > Len(run.glyphs) THEN [x_start |-> x_start, x_end |-> x_end]
    ELSE
    LET glyph == run.glyphs[i]
        rtl_factor == IF run.rtl THEN 1 ELSE 0
        ltr_factor == 1 - rtl_factor
        at_left == cursor_from_glyph_left(run, glyph)
        in_left == cursor_le(cursor_start, at_left)
                       /\ cursor_le(at_left, cursor_end)
        x_left == glyph.x + (glyph.w * rtl_factor + 0)
        x_start1 == IF in_left /\ ~x_start.some THEN Some(x_left) ELSE x_start
        x_end1 == IF in_left THEN Some(x_left) ELSE x_end
        at_right == cursor_from_glyph_right(run, glyph)
        in_right == cursor_le(cursor_start, at_right)
                        /\ cursor_le(at_right, cursor_end)
        x_right == glyph.x + (glyph.w * ltr_factor + 0)
        x_start2 == IF in_right /\ ~x_start1.some THEN Some(x_right)
                    ELSE x_start1
        x_end2 == IF in_right THEN Some(x_right) ELSE x_end1
    IN  highlight_from(run, i + 1, cursor_start, cursor_end, x_start2, x_end2)

\* highlight.  "panic" stands for the failed expect of x_end.
highlight(run, cursor_start, cursor_end) ==
    LET found == highlight_from(run, 1, cursor_start, cursor_end, None, None)
    IN  IF ~found.x_start.some THEN None
        ELSE IF ~found.x_end.some THEN [some |-> TRUE, val |-> "panic"]
        ELSE IF found.x_start.val < found.x_end.val
        THEN Some(<<found.x_start.val, found.x_end.val - found.x_start.val>>)
        ELSE Some(<<found.x_end.val, found.x_start.val - found.x_end.val>>)

\* render_decoration is not being followed through its loop.
LoopIdle ==
    /\ group_from = None
    /\ glyph_i = 0
    /\ render_pc = "idle"

\* render_decoration has not been called.
RenderIdle ==
    /\ layout_run = None
    /\ caller_color = "black"
    /\ drawn = None
    /\ drawn_before = None
    /\ cursors = None
    /\ highlit = None
    /\ LoopIdle

\* No LayoutRunIter has been constructed.
NoIter ==
    /\ lines = <<>>
    /\ started_at = 0
    /\ iter = LayoutRunIterNew(None, 0, 0, 0)
    /\ item = None
    /\ yielded = <<>>
    /\ ended = "no"
    /\ twin = LayoutRunIterNew(None, 0, 0, 0)
    /\ twin_yielded = <<>>
    /\ rich = None

\* No iterator is in use: none has been constructed over the line.
IterIdle ==
    /\ NoIter
    /\ RenderIdle

----------------------------------------------------------------------------
(* The state machine: one action per method call *)

\* The lines handed to append: freshly constructed ones of at most one byte
\* and, when the last call was split_off, the line it returned.
OtherLines ==
    UNION {{new(t, e, al, "Advanced") : e \in Endings, al \in AttrsLists(t)} :
              t \in {u \in Texts : Len(u) <= 1}}
        \cup (IF ret.kind = "line" THEN {ret.val} ELSE {})

\* The argument lists handed to reset_new.
ResetNewArgs ==
    {<<<<>>, "None", AttrsListNew(AttrsNew), "Advanced">>,
     <<<<"a">>, "Lf", AttrsListNew("bold"), "Basic">>,
     <<<<"b">>, "None", add_span(AttrsListNew("plain"), 0, 1, "bold"),
       "Advanced">>}

\* No split_off is being followed.
NoRejoin == [stage |-> "none"]

Init ==
    /\ line \in UNION {{new(t, e, al, sh) :
                           e \in Endings, al \in AttrsLists(t),
                           sh \in Shapings} : t \in Texts} \cup {empty}
    /\ op = "new"
    /\ args = [text |-> line.text, ending |-> line.ending,
               attrs_list |-> line.attrs_list, shaping |-> line.shaping]
    /\ ret = Unit
    /\ built = NoBuild
    /\ shaped_ending = None
    /\ reclaimed = FALSE
    /\ before = None
    /\ rejoin = NoRejoin
    /\ IterIdle

\* A call of method name with arguments a and outcome o = [line, ret, built];
\* reclaims says whether the method is reclaim_attrs or reclaim_text.  The two history
\* variables describe the cached ShapeLine and say nothing while there is
\* none.
LineCall(name, a, o, reclaims) ==
    /\ line' = o.line
    /\ op' = name
    /\ args' = a
    /\ ret' = o.ret
    /\ built' = o.built
    /\ shaped_ending' =
          IF is_unused(o.line.shape_opt) THEN None
          ELSE IF o.built.shape THEN Some(line.ending)
          ELSE shaped_ending
    /\ reclaimed' =
          IF is_unused(o.line.shape_opt) \/ o.built.shape THEN FALSE
          ELSE reclaimed \/ reclaims

\* A call in the course of using one line: the histories of append and
\* split_off are not kept.
Call(name, a, o, reclaims) ==
    /\ LineCall(name, a, o, reclaims)
    /\ UNCHANGED <<edit_vars, iter_vars, rich_vars, render_vars>>

NoArgs == <<>>

SetText(text, ending, attrs_list) ==
    /\ Call("set_text",
            [text |-> text, ending |-> ending, attrs_list |-> attrs_list],
            set_text(line, text, ending, attrs_list), FALSE)

SetEnding(ending) ==
    /\ Call("set_ending", [ending |-> ending], set_ending(line, ending), FALSE)

SetAttrsList ==
    \E attrs_list \in AttrsLists(line.text) :
    /\ Call("set_attrs_list", [attrs_list |-> attrs_list],
            set_attrs_list(line, attrs_list), FALSE)

SetAlign(align) ==
    /\ Call("set_align", [align |-> align], set_align(line, align), FALSE)

AppendLine ==
    \E other \in OtherLines :
    /\ Len(line.text) + Len(other.text) <= MaxLen
    /\ Call("append", [other |-> other], Out(append(line, other), Unit), FALSE)

SplitOff(index) ==
    /\ Call("split_off", [index |-> index], split_off(line, index), FALSE)

Reset ==
    /\ Call("reset", NoArgs, Out(reset(line), Unit), FALSE)

ResetShaping ==
    /\ Call("reset_shaping", NoArgs, Out(reset_shaping(line), Unit), FALSE)

ResetLayout ==
    /\ Call("reset_layout", NoArgs, Out(reset_layout(line), Unit), FALSE)

ResetNew(text, ending, attrs_list, shaping) ==
    /\ Call("reset_new",
            [text |-> text, ending |-> ending, attrs_list |-> attrs_list,
             shaping |-> shaping],
            Out(reset_new(line, text, ending, attrs_list, shaping), Unit),
            FALSE)

Shape(tab_width) ==
    /\ Call("shape", [tab_width |-> tab_width], shape(line, tab_width), FALSE)

Layout(a) ==
    /\ Call("layout", a, layout(line, a), FALSE)

\* The methods that take &self: shape_opt, layout_opt, metadata and
\* layout_runs.  ret holds what each returns.
Getters ==
    /\ Call("getters", NoArgs,
            Out(line, Val("getters",
                          [shape_opt |-> shape_opt(line),
                           layout_opt |-> layout_opt(line),
                           metadata |-> metadata(line),
                           layout_runs |-> layout_runs(line, None, 1)])),
            FALSE)

SetMetadata(m) ==
    /\ Call("set_metadata", [metadata |-> m],
            Out(set_metadata(line, m), Unit), FALSE)

ReclaimAttrs ==
    /\ Call("reclaim_attrs", NoArgs, reclaim_attrs(line), TRUE)

ReclaimText ==
    /\ Call("reclaim_text", NoArgs, reclaim_text(line), TRUE)

Next ==
    \/ \E t \in Texts, e \in Endings : \E al \in AttrsLists(t) :
          SetText(t, e, al)
    \/ \E e \in Endings : SetEnding(e)
    \/ SetAttrsList
    \/ \E al \in Aligns : SetAlign(al)
    \/ AppendLine
    \/ \E i \in 0 .. (MaxLen + 1) : SplitOff(i)
    \/ Reset
    \/ ResetShaping
    \/ ResetLayout
    \/ \E a \in ResetNewArgs : ResetNew(a[1], a[2], a[3], a[4])
    \/ \E tw \in TabWidths : Shape(tw)
    \/ \E a \in LayoutArgs : Layout(a)
    \/ Getters
    \/ \E m \in Metas : SetMetadata(m)
    \/ ReclaimAttrs
    \/ ReclaimText

Spec == Init /\ [][Next]_vars

----------------------------------------------------------------------------
(* Properties of the cache discipline *)

ShapeValid == line.shape_opt.tag = "Used"
LayoutValid == line.layout_opt.tag = "Used"

\* The setters that compare before they store.
Setters == {"set_text", "set_ending", "set_attrs_list", "set_align"}

\* C1: set_text called with the text, ending and attribute list the line
\* already holds returns false and changes no field of the line: the caches
\* (a Used one stays Used, with its value), the metadata, the alignment and
\* the content are what they were.
C1_SetTextSameIsNoop ==
    [][(/\ op' = "set_text"
        /\ args'.text = line.text
        /\ args'.ending = line.ending
        /\ args'.attrs_list = line.attrs_list)
          => (ret'.val = FALSE /\ line' = line)]_vars

\* A no-op set_text has just returned on a line with both caches valid and
\* metadata set.
C1_Witness ==
    /\ op = "set_text"
    /\ ret.val = FALSE
    /\ ShapeValid
    /\ LayoutValid
    /\ line.metadata.some

\* C2: set_text, set_ending and set_attrs_list return true exactly when what
\* they are given differs from what is stored; on true the stored content is
\* the arguments and both caches are unused, on false the line is unchanged.
C2_SettersReportChange ==
    [][/\ op' = "set_text" =>
            LET differs == \/ args'.text # line.text
                           \/ args'.ending # line.ending
                           \/ args'.attrs_list # line.attrs_list
            IN  /\ ret'.val = differs
                /\ differs =>
                      /\ line'.text = args'.text
                      /\ line'.ending = args'.ending
                      /\ line'.attrs_list = args'.attrs_list
                      /\ is_unused(line'.shape_opt)
                      /\ is_unused(line'.layout_opt)
                /\ ~differs => line' = line
       /\ op' = "set_ending" =>
            LET differs == args'.ending # line.ending
            IN  /\ ret'.val = differs
                /\ differs =>
                      /\ line'.ending = args'.ending
                      /\ is_unused(line'.shape_opt)
                      /\ is_unused(line'.layout_opt)
                /\ ~differs => line' = line
       /\ op' = "set_attrs_list" =>
            LET differs == args'.attrs_list # line.attrs_list
            IN  /\ ret'.val = differs
                /\ differs =>
                      /\ line'.attrs_list = args'.attrs_list
                      /\ is_unused(line'.shape_opt)
                      /\ is_unused(line'.layout_opt)
                /\ ~differs => line' = line]_vars

\* set_ending has just returned true on a line whose caches were both valid:
\* both now hold retained storage only.
C2_Witness ==
    /\ op = "set_ending"
    /\ ret.val = TRUE
    /\ line.ending = args.ending
    /\ line.shape_opt.tag = "Unused"
    /\ line.layout_opt.tag = "Unused"

\* C3: set_align with another alignment returns true and invalidates the
\* layout cache only: the shape cache, text, ending and attribute list are
\* untouched; with the stored alignment it returns false and changes nothing.
C3_SetAlignLayoutOnly ==
    [][op' = "set_align" =>
         IF args'.align # line.align
         THEN /\ ret'.val = TRUE
              /\ line'.align = args'.align
              /\ is_unused(line'.layout_opt)
              /\ line'.shape_opt = line.shape_opt
              /\ line'.text = line.text
              /\ line'.ending = line.ending
              /\ line'.attrs_list = line.attrs_list
         ELSE ret'.val = FALSE /\ line' = line]_vars

\* set_align has just returned true on a laid-out line: the layout is stale,
\* the shape still valid.
C3_Witness ==
    /\ op = "set_align"
    /\ ret.val = TRUE
    /\ ShapeValid
    /\ line.layout_opt.tag = "Unused"

\* C4: whenever an operation takes the shape cache or the layout cache from
\* valid to unused, the metadata is None afterwards, and it stays None until
\* set_metadata is called.
C4_MetadataClearedOnInvalidate ==
    [][/\ (\/ ShapeValid /\ is_unused(line'.shape_opt)
           \/ LayoutValid /\ is_unused(line'.layout_opt))
          => ~line'.metadata.some
       /\ (~line.metadata.some /\ line'.metadata.some)
          => op' = "set_metadata"]_vars

\* C5: when layout() has returned both caches are valid, and valid caches
\* stay valid, holding the same values, over shape, layout, the getters
\* (layout_runs among them), set_metadata and a setter that returns false.
NonInvalidating(o, r) ==
    \/ o \in {"shape", "layout", "getters", "set_metadata"}
    \/ o \in Setters /\ r.val = FALSE

C5_ValidAfterLayout ==
    /\ [](op = "layout" => ShapeValid /\ LayoutValid)
    /\ [][(ShapeValid /\ LayoutValid /\ NonInvalidating(op', ret'))
            => (line'.shape_opt = line.shape_opt
                /\ line'.layout_opt = line.layout_opt)]_vars

\* A setter has just returned false on a line with both caches valid.
C5_Witness ==
    /\ op = "set_align"
    /\ ret.val = FALSE
    /\ ShapeValid
    /\ LayoutValid

\* C6: a valid layout cache implies a valid shape cache, and the alignment
\* the cached layout was produced with is the line's alignment.
C6_LayoutImpliesShape ==
    LayoutValid =>
        /\ ShapeValid
        /\ line.layout_opt.val.align = line.align

\* A line laid out under an explicit alignment.
C6_Witness ==
    /\ LayoutValid
    /\ line.align = Some("Center")
    /\ op = "layout"
    /\ built.layout

\* The content the cached ShapeLine was built from is the line's content.
ShapeMatchesLine ==
    /\ line.shape_opt.val.text = line.text
    /\ line.shape_opt.val.attrs_list = line.attrs_list
    /\ line.shape_opt.val.shaping = line.shaping
    /\ shaped_ending = Some(line.ending)

\* C7 as stated: in every reachable state a valid shape cache was built from
\* the line's current text, attribute list, ending and shaping mode.
C7_ShapeMatchesAlways == ShapeValid => ShapeMatchesLine

\* C7 amended: a valid shape cache was built from the line's current text,
\* attribute list, ending and shaping mode, unless reclaim_attrs or
\* reclaim_text has been called since it was built.
C7_ShapeMatchesUnlessReclaimed ==
    (ShapeValid /\ ~reclaimed) => ShapeMatchesLine

\* A shaped line with a span, an ending and an alignment set after shaping.
C7_Witness ==
    /\ ShapeValid
    /\ ~reclaimed
    /\ line.text # <<>>
    /\ line.attrs_list.spans # {}
    /\ line.ending = "Lf"
    /\ op = "set_align"
    /\ ret.val = TRUE

\* C8: layout() on a valid layout cache returns the cached value, runs
\* neither computation and leaves the line as it is, whatever its arguments.
C8_LayoutReturnsCached ==
    [][(op' = "layout" /\ LayoutValid)
         => /\ line' = line
            /\ ret' = Val("layout", line.layout_opt.val)
            /\ built' = NoBuild]_vars

\* layout() has just returned a cached layout that was produced with another
\* font size, width, wrap, ellipsize, mono width and hinting, over a shape
\* built with another tab width.
C8_Witness ==
    /\ op = "layout"
    /\ ~built.layout
    /\ ret.val = line.layout_opt.val
    /\ ret.val.font_size # args.font_size
    /\ ret.val.width_opt # args.width_opt
    /\ ret.val.wrap # args.wrap
    /\ ret.val.ellipsize # args.ellipsize
    /\ ret.val.match_mono_width # args.match_mono_width
    /\ ret.val.hinting # args.hinting
    /\ ret.val.shape.tab_width # args.tab_width

\* C9: shape() and layout() never panic and return with the shape cache
\* valid; shape() builds exactly when the shape cache is unused and leaves
\* the line alone otherwise; layout() on a valid shape cache does not
\* re-shape, so layout() after a set_align that returned true on a shaped
\* line runs layout_to_buffer alone.
C9_ShapeOnlyWhenUnused ==
    /\ [](op \in {"shape", "layout"} => (ret.kind # "panic" /\ ShapeValid))
    /\ [][op' = "shape" =>
            /\ built'.shape = is_unused(line.shape_opt)
            /\ ShapeValid => line' = line]_vars
    /\ [][(op' = "layout" /\ ShapeValid) =>
            /\ ~built'.shape
            /\ line'.shape_opt = line.shape_opt]_vars
    /\ [][(op = "set_align" /\ ret.val = TRUE /\ ShapeValid /\ op' = "layout")
            => built' = [shape |-> FALSE, layout |-> TRUE]]_vars

\* layout() has just re-wrapped a line without re-shaping it.
C9_Witness ==
    /\ op = "layout"
    /\ built = [shape |-> FALSE, layout |-> TRUE]
    /\ line.align = Some("Center")

\* C10: a cache cell that leaves Used becomes Unused, never Empty; an Unused
\* cell reads as absent; and a cell that is not Empty never becomes Empty.
CellSteps(c, d) ==
    /\ c.tag # "Empty" => d.tag # "Empty"
    /\ (c.tag = "Used" /\ d.tag # "Used") => d.tag = "Unused"

C10_StaleNeverEmpty ==
    /\ [][/\ CellSteps(line.shape_opt, line'.shape_opt)
          /\ CellSteps(line.layout_opt, line'.layout_opt)]_vars
    /\ [](line.shape_opt.tag = "Unused" => ~shape_opt(line).some)
    /\ [](line.layout_opt.tag = "Unused" => ~layout_opt(line).some)

\* reset_new has just run on a line whose caches were both valid.
C10_Witness ==
    /\ op = "reset_new"
    /\ line.shape_opt.tag = "Unused"
    /\ line.layout_opt.tag = "Unused"

----------------------------------------------------------------------------
(* Joining and splitting lines: append and split_off on lines with longer  *)
(* texts and every attribute list over them.                               *)

\* Longest text of a line that is joined or split, in bytes.
MaxEditLen == 2

\* The texts of the lines before any joining: the line's own is a run of
\* "a" and the text of a line handed to append a run of "b", which tells
\* the order in which they were joined.
EditTexts(c) == {[i \in 1 .. n |-> c] : n \in 0 .. MaxEditLen}

\* Attrs
Attrs == {"plain", "bold"}

\* The attribute lists over a text as the caller builds them: either
\* default and at most one span, of either attributes, over any range of the
\* text.  (append and split_off make lists of more spans from these.)
EditAttrsLists(text) ==
    {AttrsListNew(d) : d \in Attrs}
        \cup {add_span(AttrsListNew(d), i, j, a) :
                 d \in Attrs, a \in Attrs,
                 i \in 0 .. (Len(text) - 1), j \in 1 .. Len(text)}

\* The lines as constructed by BufferLine::new.
EditLines(c, shapings) ==
    UNION {{new(t, e, al, sh) :
               e \in Endings, al \in EditAttrsLists(t), sh \in shapings} :
              t \in EditTexts(c)}

\* The lines handed to append: constructed ones and, when the last call
\* was split_off, the line it returned.
EditOthers ==
    EditLines("b", {"Advanced"})
        \cup (IF ret.kind = "line" THEN {ret.val} ELSE {})

\* A line in use: centred, laid out and given metadata.
InUse(l) ==
    set_metadata(layout(set_align(l, Some("Center")).line,
                        LayoutArgsBase).line, 7)

\* The line is as constructed or in use; the histories are those of the
\* calls that made it so.
EditInit ==
    /\ line \in EditLines("a", Shapings)
                   \cup {InUse(l) : l \in EditLines("a", Shapings)}
    /\ op = IF line.metadata.some THEN "set_metadata" ELSE "new"
    /\ args = IF line.metadata.some
              THEN [metadata |-> line.metadata.val]
              ELSE [text |-> line.text, ending |-> line.ending,
                    attrs_list |-> line.attrs_list, shaping |-> line.shaping]
    /\ ret = Unit
    /\ built = NoBuild
    /\ shaped_ending = IF is_unused(line.shape_opt) THEN None
                       ELSE Some(line.ending)
    /\ reclaimed = FALSE
    /\ before = None
    /\ rejoin = NoRejoin
    /\ IterIdle

\* append(other).  When other has no text, before records the ending
\* append found and whether the layout was valid and metadata set; rejoin
\* records that other is what the split_off just before returned.
EditAppend ==
    \E other \in EditOthers :
    /\ Len(line.text) + Len(other.text) <= MaxEditLen
    /\ LineCall("append", [other |-> other], Out(append(line, other), Unit),
                FALSE)
    /\ before' = IF other.text = <<>>
                 THEN Some([ending |-> line.ending,
                            valid |-> line.layout_opt.tag = "Used"
                                         /\ line.metadata.some])
                 ELSE None
    /\ rejoin' = IF rejoin.stage = "split" /\ ret.kind = "line"
                    /\ other = ret.val
                 THEN [rejoin EXCEPT !.stage = "joined"]
                 ELSE NoRejoin
    /\ UNCHANGED <<iter_vars, rich_vars, render_vars>>

\* split_off(index).  rejoin records the text and ending of the line that
\* was split.
EditSplitOff(index) ==
    /\ LineCall("split_off", [index |-> index], split_off(line, index), FALSE)
    /\ before' = None
    /\ rejoin' = IF index <= Len(line.text)
                 THEN [stage |-> "split", text |-> line.text,
                       ending |-> line.ending]
                 ELSE NoRejoin
    /\ UNCHANGED <<iter_vars, rich_vars, render_vars>>

EditNext ==
    \/ EditAppend
    \/ \E i \in 0 .. (MaxEditLen + 1) : EditSplitOff(i)

SpecEdit == EditInit /\ [][EditNext]_vars

\* C11: append(other) sets the text to the old text followed by other's
\* text and the ending to other's ending, leaves alignment and shaping mode
\* as they were, and leaves both caches unused and the metadata cleared,
\* also when other's text is empty and its ending is the line's.
C11_AppendContent ==
    [][op' = "append" =>
          /\ line'.text = line.text \o args'.other.text
          /\ line'.ending = args'.other.ending
          /\ line'.align = line.align
          /\ line'.shaping = line.shaping
          /\ is_unused(line'.shape_opt)
          /\ is_unused(line'.layout_opt)
          /\ ~shape_opt(line').some
          /\ ~layout_opt(line').some
          /\ line'.metadata = None]_vars

\* append of a line with no text and the same ending to a line that was laid
\* out and had metadata: the caches are stale storage now.
C11_Witness ==
    /\ op = "append"
    /\ args.other.text = <<>>
    /\ before.some
    /\ before.val.ending = args.other.ending
    /\ before.val.valid
    /\ Len(line.text) = MaxEditLen
    /\ line.align = Some("Center")
    /\ line.shape_opt.tag = "Unused"
    /\ line.layout_opt.tag = "Unused"

\* C12: append(other) keeps the formatting of the text it moves: the
\* attributes in effect at position len + p of the line after the call are
\* those in effect at p in other (other's span over p, or else other's
\* defaults), for every position p of other's text, and the attributes in
\* effect below len are what they were.
C12_AppendKeepsFormatting ==
    [][op' = "append" =>
          LET other == args'.other
              len == Len(line.text)
          IN  /\ \A p \in 0 .. (Len(other.text) - 1) :
                    get_span(line'.attrs_list, len + p)
                        = get_span(other.attrs_list, p)
              /\ \A p \in 0 .. (len - 1) :
                    get_span(line'.attrs_list, p)
                        = get_span(line.attrs_list, p)]_vars

\* The appended line had other defaults than the line and a span of its
\* own: its text is in the line with both kinds of formatting.
C12_Witness ==
    /\ op = "append"
    /\ Len(args.other.text) = 2
    /\ args.other.attrs_list.defaults # line.attrs_list.defaults
    /\ args.other.attrs_list.spans = {<<1, line.attrs_list.defaults>>}
    /\ get_span(line.attrs_list, Len(line.text) - 2)
          = args.other.attrs_list.defaults
    /\ get_span(line.attrs_list, Len(line.text) - 1)
          = line.attrs_list.defaults

\* C13: split_off(index) with index within the text leaves the line with
\* the text before index, ending None, both caches unused and the metadata
\* cleared, and returns a new line with the text from index on and the
\* ending, alignment and shaping mode the line had, whose caches are Empty
\* and whose metadata is not set.
C13_SplitOffContent ==
    [][(op' = "split_off" /\ args'.index <= Len(line.text)) =>
          /\ line'.text = SubSeq(line.text, 1, args'.index)
          /\ line'.ending = "None"
          /\ is_unused(line'.shape_opt)
          /\ is_unused(line'.layout_opt)
          /\ line'.metadata = None
          /\ ret'.kind = "line"
          /\ ret'.val.text
                = SubSeq(line.text, args'.index + 1, Len(line.text))
          /\ line'.text \o ret'.val.text = line.text
          /\ ret'.val.ending = line.ending
          /\ ret'.val.align = line.align
          /\ ret'.val.shaping = line.shaping
          /\ ret'.val.shape_opt = CachedEmpty
          /\ ret'.val.layout_opt = CachedEmpty
          /\ ret'.val.metadata = None]_vars

\* A centred, laid-out line of two bytes ending in Lf, shaped in Basic mode,
\* was split in the middle.
C13_Witness ==
    /\ op = "split_off"
    /\ args.index = 1
    /\ ret.kind = "line"
    /\ Len(line.text) = 1
    /\ Len(ret.val.text) = 1
    /\ ret.val.ending = "Lf"
    /\ ret.val.align = Some("Center")
    /\ ret.val.shaping = "Basic"
    /\ line.layout_opt.tag = "Unused"

\* C14: t = L.split_off(i) followed by L.append(t), for a valid index i,
\* leaves L with the text and the ending it had before the two calls.
C14_SplitAppendInverse ==
    rejoin.stage = "joined" =>
        /\ line.text = rejoin.text
        /\ line.ending = rejoin.ending

\* A line of two bytes ending in Lf was split in the middle and joined
\* again.
C14_Witness ==
    /\ op = "append"
    /\ rejoin.stage = "joined"
    /\ Len(rejoin.text) = 2
    /\ Len(args.other.text) = 1
    /\ rejoin.ending = "Lf"

\* C15: split_off with an index beyond the length of the text panics: it
\* returns no line (none for a clamped index either) and no error value,
\* and the line is as it was.
C15_SplitOffPastEndPanics ==
    [][(op' = "split_off" /\ args'.index > Len(line.text)) =>
          /\ ret'.kind = "panic"
          /\ line' = line]_vars

\* split_off(2) on a line of one byte has panicked.
C15_Witness ==
    /\ op = "split_off"
    /\ args.index = Len(line.text) + 1
    /\ Len(line.text) = 1
    /\ ret = Panic("split_off")

----------------------------------------------------------------------------
(* Walking the laid-out lines: LayoutRunIter over a slice of BufferLines   *)

\* Most BufferLines in the slice, and most LayoutLines a line wraps into.
MaxParas == 2
MaxWrapped == 2

\* LayoutLines, in half pixels: one of the default line height with glyphs
\* that nearly fill it, one with a tall line_height_opt around the same
\* glyphs, and one whose glyphs are taller than its line_height_opt.
LayoutLines ==
    {[line_height_opt |-> None, max_ascent |-> 4, max_descent |-> 2],
     [line_height_opt |-> Some(24), max_ascent |-> 4, max_descent |-> 2],
     [line_height_opt |-> Some(4), max_ascent |-> 6, max_descent |-> 2]}

RECURSIVE LayoutsUpTo(_)
LayoutsUpTo(n) ==
    IF n = 0 THEN {<<>>}
    ELSE LET s == LayoutsUpTo(n - 1)
         IN  s \cup {Append(t, ll) : t \in {u \in s : Len(u) = n - 1},
                                    ll \in LayoutLines}

\* A BufferLine as the iterator sees it: its two caches.
Paragraph(shape_c, layout_c) ==
    [empty EXCEPT !.shape_opt = shape_c, !.layout_opt = layout_c]

\* The BufferLines of a slice: never shaped, shaped but with the layout
\* invalidated, or shaped and wrapped into one or more LayoutLines.
Paragraphs ==
    {Paragraph(CachedEmpty, CachedEmpty),
     Paragraph(CachedUsed([rtl |-> FALSE]), CachedUnused)}
        \cup {Paragraph(CachedUsed([rtl |-> FALSE]), CachedUsed(lay)) :
                 lay \in LayoutsUpTo(MaxWrapped) \ {<<>>}}

RECURSIVE SlicesUpTo(_)
SlicesUpTo(n) ==
    IF n = 0 THEN {<<>>}
    ELSE LET s == SlicesUpTo(n - 1)
         IN  s \cup {Append(t, l) : t \in {u \in s : Len(u) = n - 1},
                                   l \in Paragraphs}

\* The arguments of LayoutRunIter::new besides lines and start, in half
\* pixels: the window's height, the default line height and the scroll.
HeightOpts == {None, Some(4), Some(16)}
LineHeights == {8}
Scrolls == {0, 12}

\* The BufferLine of the other specifications is not in use.
LineIdle ==
    /\ line = empty
    /\ op = "new"
    /\ args = [text |-> line.text, ending |-> line.ending,
               attrs_list |-> line.attrs_list, shaping |-> line.shaping]
    /\ ret = Unit
    /\ built = NoBuild
    /\ shaped_ending = None
    /\ reclaimed = FALSE
    /\ before = None
    /\ rejoin = NoRejoin

IterInit ==
    /\ LineIdle
    /\ lines \in SlicesUpTo(MaxParas)
    /\ started_at \in 0 .. MaxParas
    /\ iter \in {LayoutRunIterNew(h, lh, sc, started_at) :
                    h \in HeightOpts, lh \in LineHeights, sc \in Scrolls}
    /\ item = None
    /\ yielded = <<>>
    /\ ended = "no"
    /\ twin = LayoutRunIterNew(None, 0, 0, 0)
    /\ twin_yielded = <<>>
    /\ rich = None
    /\ RenderIdle

\* One call of next().  yielded keeps each run with the place of its
\* LayoutLine; ended keeps which return was the first to give None.
IterNext ==
    /\ LET o == next(lines, iter)
       IN  /\ iter' = o.iter
           /\ item' = o.item
           /\ yielded' = IF o.item.some
                         THEN Append(yielded,
                                     [line_i |-> o.item.val.line_i,
                                      layout_i |-> o.layout_i,
                                      run |-> o.item.val])
                         ELSE yielded
           /\ ended' = IF ended = "no" /\ ~o.item.some THEN o.why ELSE ended
    /\ UNCHANGED <<lines, started_at, twin, twin_yielded, line_vars,
                   edit_vars, rich_vars, render_vars>>

SpecIter == IterInit /\ [][IterNext]_vars

\* The LayoutLine a yielded run was made from.
LayoutLineOf(y) == lines[y.line_i + 1].layout_opt.val[y.layout_i + 1]

\* A line the iterator cannot walk: shape_opt() or layout_opt() is None.
Uncached(l) == ~shape_opt(l).some \/ ~layout_opt(l).some

\* C16: every run yielded lies in the window: with a height set, none has
\* line_y - max_ascent above the height, and none has line_y + max_descent
\* below 0.
C16_RunsInsideWindow ==
    \A k \in 1 .. Len(yielded) :
        LET y == yielded[k]
            ll == LayoutLineOf(y)
        IN  /\ iter.height_opt.some =>
                  ~(y.run.line_y - ll.max_ascent > iter.height_opt.val)
            /\ ~(y.run.line_y + ll.max_descent < 0)

\* Under a scroll and a height, the first LayoutLines were skipped, one was
\* yielded and a later one was past the window.
C16_Witness ==
    /\ iter.height_opt.some
    /\ iter.scroll > 0
    /\ Len(yielded) = 1
    /\ yielded[1].line_i = started_at
    /\ yielded[1].layout_i > 0
    /\ ended = "cutoff"

\* C17: once next() has returned None because a LayoutLine was past the
\* window's height, every later call of next() returns None.
C17_CutoffIsFinal ==
    [][ended = "cutoff" => item' = None]_vars

\* C18: the iterator stops at the first line without a valid shape or
\* layout cache: no run of that line or a later one is ever yielded, and
\* every call of next() with the iterator at that line returns None and
\* leaves it there.
C18_StopsAtUncachedLine ==
    /\ [](\A k \in started_at .. (Len(lines) - 1) :
             Uncached(lines[k + 1]) =>
                 \A j \in 1 .. Len(yielded) : yielded[j].line_i < k)
    /\ [][(iter.line_i < Len(lines) /\ Uncached(lines[iter.line_i + 1])) =>
             /\ item' = None
             /\ iter'.line_i = iter.line_i]_vars

\* The iterator has stopped at the first of two lines, whose layout is
\* invalid, while the second has valid caches.
C18_Witness ==
    /\ ended = "cache"
    /\ Len(lines) = 2
    /\ iter.line_i = 0
    /\ lines[1].shape_opt.tag = "Used"
    /\ ~Uncached(lines[2])
    /\ yielded = <<>>

\* <<line_i, layout_i>> pairs in lexicographic order.
LexLess(a, b) ==
    \/ a.line_i < b.line_i
    \/ a.line_i = b.line_i /\ a.layout_i < b.layout_i

\* The number of LayoutLines of the lines from index k (counted from 0) on.
RECURSIVE WrappedFrom(_, _)
WrappedFrom(ls, k) ==
    IF k >= Len(ls) THEN 0
    ELSE (IF layout_opt(ls[k + 1]).some
          THEN Len(layout_opt(ls[k + 1]).val) ELSE 0)
             + WrappedFrom(ls, k + 1)

\* C19: the iteration is finite and forward-only: the runs yielded have
\* strictly increasing <<line index, layout line index>> pairs (so none is
\* yielded twice), there are never more of them than LayoutLines in the
\* lines from start on (none when start is past the last line), and the
\* iterator's own position never moves back.
C19_ForwardAndFinite ==
    /\ [](\A j \in 1 .. (Len(yielded) - 1) :
             LexLess(yielded[j], yielded[j + 1]))
    /\ [](Len(yielded) <= WrappedFrom(lines, started_at))
    /\ [][LexLess(iter, iter') \/ (iter'.line_i = iter.line_i
                                    /\ iter'.layout_i = iter.layout_i)]_vars

\* Every LayoutLine of two lines, three or more in all, has been yielded
\* and the iterator has run off the end.
C19_Witness ==
    /\ ended = "end"
    /\ started_at = 0
    /\ Len(lines) = 2
    /\ Len(yielded) = WrappedFrom(lines, 0)
    /\ Len(yielded) >= 3

\* The line height of a LayoutLine under the iterator's default.
HeightOf(ll) == unwrap_or(ll.line_height_opt, iter.line_height)

\* The sum of the line heights of the first n LayoutLines of a layout.
RECURSIVE HeightsOf(_, _)
HeightsOf(lay, n) ==
    IF n = 0 THEN 0 ELSE HeightsOf(lay, n - 1) + HeightOf(lay[n])

\* The sum of the line heights of the LayoutLines from line k on that come
\* before <<line_i, layout_i>>.
RECURSIVE HeightsBefore(_, _, _)
HeightsBefore(k, line_i, layout_i) ==
    IF k > line_i THEN 0
    ELSE LET lay == lines[k + 1].layout_opt.val
         IN  HeightsOf(lay, IF k = line_i THEN layout_i ELSE Len(lay))
                + HeightsBefore(k + 1, line_i, layout_i)

\* C20: a run yielded before next() has returned None for the first time
\* has line_top equal to the sum of the line heights (line_height_opt, or
\* else the default) of all LayoutLines before it from the start line on,
\* those skipped above the window among them, less the scroll.
C20_LineTopSumsHeights ==
    [][(ended = "no" /\ item'.some) =>
          item'.val.line_top
              = HeightsBefore(started_at, item'.val.line_i,
                              iter'.layout_i - 1) - iter.scroll]_vars

\* The first run yielded comes after LayoutLines that were skipped: its
\* line_top counts their heights.
C20_Witness ==
    /\ ended = "no"
    /\ item.some
    /\ Len(yielded) = 1
    /\ iter.scroll > 0
    /\ yielded[1].layout_i > 0
    /\ item.val.line_top + iter.scroll > 0

\* C21: every run yielded has the line height of its LayoutLine, the
\* line_height_opt when there is one and the iterator's default otherwise,
\* and its baseline centres the glyph extent in the line box:
\* line_y = line_top + (line_height - (max_ascent + max_descent)) / 2
\*          + max_ascent (stated with both sides doubled).
C21_CentredBaseline ==
    \A k \in 1 .. Len(yielded) :
        LET y == yielded[k]
            ll == LayoutLineOf(y)
        IN  /\ ll.line_height_opt.some =>
                  y.run.line_height = ll.line_height_opt.val
            /\ ~ll.line_height_opt.some =>
                  y.run.line_height = iter.line_height
            /\ 2 * (y.run.line_y - y.run.line_top - ll.max_ascent)
                  = y.run.line_height - (ll.max_ascent + ll.max_descent)

\* Three runs have been yielded: one with a tall line_height_opt, one of
\* the default height, and one whose glyphs are taller than its line, so
\* that its baseline lies less than max_ascent under its top.
C21_Witness ==
    /\ Len(yielded) = 3
    /\ LayoutLineOf(yielded[1]).line_height_opt = Some(24)
    /\ yielded[1].run.line_height = 24
    /\ ~LayoutLineOf(yielded[2]).line_height_opt.some
    /\ yielded[2].run.line_height = iter.line_height
    /\ yielded[3].run.line_y - yielded[3].run.line_top
          < LayoutLineOf(yielded[3]).max_ascent

----------------------------------------------------------------------------
(* Rich text with a span of its own metrics, laid out and walked.  The     *)
(* text is split into BufferLines at its line breaks; the buffer is 500    *)
(* pixels wide and no line of these texts, of one letter at most, comes    *)
(* near that width, so each wraps into one LayoutLine.  Lengths are in     *)
(* twentieths of a pixel here, which makes 9.6 pixels an even integer.     *)

\* Most line breaks before and after the text of the span.
MaxBreaks == 3

\* Metrics in twentieths of a pixel: Metrics::new(32.0, 44.0), the buffer's,
\* and Metrics::relative(8.0, 1.2), the span's, line height 9.6.
BufferMetrics == [font_size |-> 640, line_height |-> 880]
SmallMetrics == [font_size |-> 160, line_height |-> 192]

\* buffer.set_size(Some(500.0), Some(500.0))
BufferSize == [width_opt |-> Some(10000), height_opt |-> Some(10000)]

\* n line breaks
Breaks(n) == [i \in 1 .. n |-> "\n"]

\* The three pieces handed to set_rich_text: text under the buffer's
\* attributes, a span with metrics holding line breaks, text and line
\* breaks, and text under the buffer's attributes again.
RichText(first, k1, small, k2, last) ==
    <<[text |-> first, metrics_opt |-> None],
      [text |-> Breaks(k1) \o small \o Breaks(k2),
       metrics_opt |-> Some(SmallMetrics)],
      [text |-> last, metrics_opt |-> None]>>

RichTexts ==
    {[before |-> b, k1 |-> k1, small |-> sm, k2 |-> k2, after |-> a,
      width_opt |-> BufferSize.width_opt,
      height_opt |-> BufferSize.height_opt] :
        b \in {<<>>, <<"B">>}, k1 \in 0 .. MaxBreaks, sm \in {<<>>, <<"s">>},
        k2 \in 0 .. MaxBreaks, a \in {<<>>, <<"A">>}}

\* The bytes of a rich text, each with the number of its piece.
RECURSIVE RichBytes(_, _)
RichBytes(pieces, n) ==
    IF n > Len(pieces) THEN <<>>
    ELSE [i \in 1 .. Len(pieces[n].text) |->
             [ch |-> pieces[n].text[i], piece |-> n]]
            \o RichBytes(pieces, n + 1)

\* The byte ranges start .. end - 1 of the lines of a text, from byte
\* start of the current line at byte p on.
RECURSIVE LineRanges(_, _, _)
LineRanges(bytes, from, p) ==
    IF p >= Len(bytes) THEN <<[from |-> from, to |-> p]>>
    ELSE IF bytes[p + 1].ch = "\n"
    THEN <<[from |-> from, to |-> p]>> \o LineRanges(bytes, p + 1, p + 1)
    ELSE LineRanges(bytes, from, p + 1)

\* The metrics that decide a line's height: those of a span with metrics
\* that a byte of the line comes from or, for a line without bytes, of the
\* span its position lies strictly inside of (the bytes on both sides of the
\* position are the span's); none otherwise.
LineMetricsOpt(pieces, bytes, r) ==
    IF r.from < r.to
    THEN IF \E p \in r.from .. (r.to - 1) :
                pieces[bytes[p + 1].piece].metrics_opt.some
         THEN pieces[bytes[(CHOOSE p \in r.from .. (r.to - 1) :
                  pieces[bytes[p + 1].piece].metrics_opt.some) + 1].piece]
                  .metrics_opt
         ELSE None
    ELSE IF r.from > 0 /\ r.from < Len(bytes)
               /\ bytes[r.from].piece = bytes[r.from + 1].piece
         THEN pieces[bytes[r.from].piece].metrics_opt
         ELSE None

\* The LayoutLine of a line: its line_height_opt is the line height of the
\* metrics that decide, and its glyph extent that of their font size.
RichLayoutLine(m) ==
    LET font_size == IF m.some THEN m.val.font_size
                     ELSE BufferMetrics.font_size
    IN  [line_height_opt |-> IF m.some THEN Some(m.val.line_height) ELSE None,
         max_ascent |-> (3 * font_size) \div 4,
         max_descent |-> font_size \div 4]

\* Buffer::set_rich_text followed by shape_until_scroll: the BufferLines,
\* shaped and laid out.
RichLayout(pieces) ==
    LET bytes == RichBytes(pieces, 1)
        ranges == LineRanges(bytes, 0, 0)
    IN  [j \in 1 .. Len(ranges) |->
            Paragraph(CachedUsed([rtl |-> FALSE]),
                      CachedUsed(<<RichLayoutLine(
                          LineMetricsOpt(pieces, bytes, ranges[j]))>>))]

\* set_rich_text, set_size and shape_until_scroll, then
\* Buffer::layout_runs over the laid-out lines: the buffer's height and
\* line height, no scroll, from the first line.
RichInit ==
    /\ LineIdle
    /\ rich \in {Some(rt) : rt \in RichTexts}
    /\ lines = RichLayout(RichText(rich.val.before, rich.val.k1,
                                   rich.val.small, rich.val.k2,
                                   rich.val.after))
    /\ started_at = 0
    /\ iter = LayoutRunIterNew(rich.val.height_opt, BufferMetrics.line_height,
                               0, 0)
    /\ item = None
    /\ yielded = <<>>
    /\ ended = "no"
    /\ twin = LayoutRunIterNew(None, 0, 0, 0)
    /\ twin_yielded = <<>>
    /\ RenderIdle

SpecRich == RichInit /\ [][IterNext]_vars

\* Line j (from 0) of a rich text has the span's line height: it lies
\* between the first and the last line, or it holds the span's text.
InSpan(rt, j) ==
    \/ 0 < j /\ j < rt.k1 + rt.k2
    \/ j = rt.k1 /\ rt.small # <<>>

\* "Before" + "\n\n\nSmall\n\n" + "After"
RichExample ==
    [before |-> <<"B">>, k1 |-> 3, small |-> <<"s">>, k2 |-> 2,
     after |-> <<"A">>, width_opt |-> BufferSize.width_opt,
     height_opt |-> BufferSize.height_opt]

\* C22: a line whose glyphs come from a span with metrics, or which is
\* empty and lies strictly inside the span, is yielded with the span's line
\* height, and a line outside or merely next to the span with the buffer's:
\* there is one run per line, and "Before" + "\n\n\nSmall\n\n" + "After"
\* (span 8.0/1.2, buffer 32/44) gives the six heights 44, 9.6, 9.6, 9.6,
\* 9.6, 44.
C22_SpanLineHeights ==
    /\ \A k \in 1 .. Len(yielded) :
          /\ yielded[k].line_i = k - 1
          /\ yielded[k].run.line_height
                = IF InSpan(rich.val, k - 1) THEN SmallMetrics.line_height
                  ELSE BufferMetrics.line_height
    /\ ended # "no" =>
          /\ ended = "end"
          /\ Len(yielded) = rich.val.k1 + rich.val.k2 + 1
          /\ rich.val = RichExample =>
                [k \in 1 .. 6 |-> yielded[k].run.line_height]
                    = <<880, 192, 192, 192, 192, 880>>

\* The example has been walked to its end.
C22_Witness ==
    /\ rich = Some(RichExample)
    /\ ended = "end"
    /\ Len(yielded) = 6

----------------------------------------------------------------------------
(* SpecRender: render_decoration called twice on one LayoutRun.            *)

MaxGlyphs == 3

\* The font's metrics, as factors of the font size in halves: an underline
\* half a font size under the baseline and half of it thick, a
\* strikethrough half a font size over the baseline and one font size thick.
FontUnderline == [offset |-> -1, thickness |-> 1]
FontStrikethrough == [offset |-> 1, thickness |-> 2]

\* DecorationData
DecorationData(underline, underline_color_opt, strikethrough, strikethrough_color_opt, overline, overline_color_opt) ==
    [text_decoration |->
         [underline |-> underline,
          underline_color_opt |-> underline_color_opt,
          strikethrough |-> strikethrough,
          strikethrough_color_opt |-> strikethrough_color_opt,
          overline |-> overline,
          overline_color_opt |-> overline_color_opt],
     underline_metrics |-> FontUnderline,
     strikethrough_metrics |-> FontStrikethrough]

Underlined == DecorationData("Single", None, FALSE, None, FALSE, None)
UnderlinedRed ==
    DecorationData("Single", Some("red"), FALSE, None, FALSE, None)
DoublyUnderlined == DecorationData("Double", None, FALSE, None, FALSE, None)
AllThree == DecorationData("Single", None, TRUE, Some("cyan"), TRUE, None)

\* The glyphs a run is made of, before they are placed: width, font size,
\* the colour of the glyph's span and its decoration.  Two of them share
\* the descriptor Underlined and differ in colour and font size; one is
\* half a pixel wide, one has no width.
GlyphKinds ==
    { [w |-> 4, font_size |-> 4, color_opt |-> None,
       decoration_data |-> None],
      [w |-> 4, font_size |-> 4, color_opt |-> None,
       decoration_data |-> Some(Underlined)],
      [w |-> 3, font_size |-> 6, color_opt |-> Some("blue"),
       decoration_data |-> Some(Underlined)],
      [w |-> 4, font_size |-> 4, color_opt |-> None,
       decoration_data |-> Some(UnderlinedRed)],
      [w |-> 4, font_size |-> 2, color_opt |-> Some("blue"),
       decoration_data |-> Some(DoublyUnderlined)],
      [w |-> 4, font_size |-> 4, color_opt |-> Some("green"),
       decoration_data |-> Some(AllThree)],
      [w |-> 1, font_size |-> 4, color_opt |-> None,
       decoration_data |-> Some(Underlined)],
      [w |-> 0, font_size |-> 4, color_opt |-> None,
       decoration_data |-> Some(DoublyUnderlined)] }

KindsUpTo(n) == UNION { [1 .. k -> GlyphKinds] : k \in 0 .. n }

\* The widths of kinds[from .. to] together.
RECURSIVE WidthOf(_, _, _)
WidthOf(kinds, from, to) ==
    IF from > to THEN 0 ELSE kinds[from].w + WidthOf(kinds, from + 1, to)

\* The glyphs of a run of one line, in the order the layout stores them:
\* glyph k is character k of the text, and the pen starts at x0 and moves
\* right in a left-to-right run, starts at the far end and moves left in a
\* right-to-left one.
PlacedGlyphs(kinds, rtl, x0) ==
    [k \in 1 .. Len(kinds) |->
        [start |-> k - 1,
         end |-> k,
         x |-> IF rtl THEN x0 + WidthOf(kinds, k + 1, Len(kinds))
               ELSE x0 + WidthOf(kinds, 1, k - 1),
         w |-> kinds[k].w,
         font_size |-> kinds[k].font_size,
         color_opt |-> kinds[k].color_opt,
         decoration_data |-> kinds[k].decoration_data]]

\* LayoutRun
LayoutRun(line_i, rtl, glyphs, line_y, line_top) ==
    [line_i |-> line_i, rtl |-> rtl, glyphs |-> glyphs,
     line_y |-> line_y, line_top |-> line_top]

\* Where a run lies: baseline and top, on screen or scrolled partly off it.
RunPlaces == { [line_y |-> 30, line_top |-> 20],
               [line_y |-> -3, line_top |-> -11] }

RenderRuns ==
    { LayoutRun(0, rtl, PlacedGlyphs(kinds, rtl, x0), at.line_y, at.line_top) :
        kinds \in KindsUpTo(MaxGlyphs), rtl \in BOOLEAN, x0 \in {0, 1},
        at \in RunPlaces }

Colors == {"black", "white"}

RenderInit ==
    /\ LineIdle
    /\ NoIter
    /\ layout_run \in { Some(r) : r \in RenderRuns }
    /\ caller_color \in Colors
    /\ drawn = None
    /\ drawn_before = None
    /\ cursors = None
    /\ highlit = None
    /\ LoopIdle

\* One call of render_decoration(renderer, run, default_color) with a
\* renderer that records the calls made on it.
Render ==
    /\ layout_run.some
    /\ ~drawn_before.some
    /\ drawn' = Some(render_decoration(layout_run.val, caller_color))
    /\ drawn_before' = drawn
    /\ UNCHANGED <<layout_run, caller_color, cursors, highlit, loop_vars,
                   line_vars, edit_vars, iter_vars, rich_vars>>

SpecRender == RenderInit /\ [][Render]_vars

\* glyphs[a .. b] is a maximal stretch of glyphs that all carry the same
\* decoration descriptor.
IsGroup(glyphs, a, b) ==
    /\ 1 <= a /\ a <= b /\ b <= Len(glyphs)
    /\ glyphs[a].decoration_data.some
    /\ \A k \in a .. b : glyphs[k].decoration_data = glyphs[a].decoration_data
    /\ a > 1 => glyphs[a - 1].decoration_data # glyphs[a].decoration_data
    /\ b < Len(glyphs) =>
           glyphs[b + 1].decoration_data # glyphs[b].decoration_data

Groups(glyphs) ==
    { g \in (1 .. Len(glyphs)) \X (1 .. Len(glyphs)) :
          IsGroup(glyphs, g[1], g[2]) }

GroupGlyphs(glyphs, g) == SubSeq(glyphs, g[1], g[2])

\* The least left edge and the greatest right edge of some glyphs.
MinLeft(glyphs) ==
    CHOOSE m \in { glyphs[k].x : k \in 1 .. Len(glyphs) } :
        \A k \in 1 .. Len(glyphs) : m <= glyphs[k].x

MaxRight(glyphs) ==
    CHOOSE m \in { glyphs[k].x + glyphs[k].w : k \in 1 .. Len(glyphs) } :
        \A k \in 1 .. Len(glyphs) : m >= glyphs[k].x + glyphs[k].w

\* The whole pixels a group covers from its least left edge to its
\* greatest right edge.
PixelsOf(glyphs) == as_u32(MaxRight(glyphs) - MinLeft(glyphs))

\* The rectangles of one rectangle set: one per enabled feature, two for a
\* double underline.
FeatureCount(td) ==
    (IF td.underline = "Single" THEN 1
     ELSE IF td.underline = "Double" THEN 2 ELSE 0)
    + (IF td.strikethrough THEN 1 ELSE 0)
    + (IF td.overline THEN 1 ELSE 0)

\* What the groups from glyph a on draw, one after the other.
RECURSIVE DrawGroupsFrom(_, _, _)
DrawGroupsFrom(r, a, color) ==
    IF a > Len(r.glyphs) THEN <<>>
    ELSE IF \E b \in a .. Len(r.glyphs) : IsGroup(r.glyphs, a, b)
    THEN LET b == CHOOSE b \in a .. Len(r.glyphs) : IsGroup(r.glyphs, a, b)
         IN  draw_decoration_group(r, SubSeq(r.glyphs, a, b), color)
             \o DrawGroupsFrom(r, b + 1, color)
    ELSE DrawGroupsFrom(r, a + 1, color)

\* C23: render_decoration partitions the run's glyphs, in storage order,
\* into the maximal stretches of consecutive glyphs whose descriptors are
\* present and equal: every decorated glyph lies in exactly one group, an
\* undecorated glyph in none, neighbours with equal descriptors lie in one
\* group and neighbours with different descriptors in different ones; what
\* is drawn is what the groups draw, in order; and each group draws exactly
\* one rectangle set, one rectangle per enabled feature and two for a double
\* underline (none when it covers no whole pixel).
C23_OneRectangleSetPerGroup ==
    drawn.some =>
        LET r == layout_run.val
            gs == r.glyphs
        IN  /\ \A k \in 1 .. Len(gs) :
                   IF gs[k].decoration_data.some
                   THEN Cardinality({ g \in Groups(gs) :
                                          g[1] <= k /\ k <= g[2] }) = 1
                   ELSE \A g \in Groups(gs) : ~(g[1] <= k /\ k <= g[2])
            /\ \A k \in 1 .. Len(gs) - 1 :
                   gs[k].decoration_data.some =>
                       ((gs[k].decoration_data = gs[k + 1].decoration_data)
                            <=> \E g \in Groups(gs) :
                                    g[1] <= k /\ k + 1 <= g[2])
            /\ drawn.val = DrawGroupsFrom(r, 1, caller_color)
            /\ \A g \in Groups(gs) :
                   Len(draw_decoration_group(r, GroupGlyphs(gs, g),
                                             caller_color))
                       = IF PixelsOf(GroupGlyphs(gs, g)) >= 1
                         THEN FeatureCount(
                                  gs[g[1]].decoration_data.val.text_decoration)
                         ELSE 0

\* C24: the rectangles of a group reach from the least left edge to the
\* greatest right edge of the group's glyphs, in whatever order the glyphs
\* are stored, also in a right-to-left run that stores them from the right.
C24_ExtentIsMinMax ==
    drawn.some =>
        LET r == layout_run.val
            gs == r.glyphs
        IN  \A g \in Groups(gs) :
                LET rects == draw_decoration_group(r, GroupGlyphs(gs, g),
                                                   caller_color)
                IN  PixelsOf(GroupGlyphs(gs, g)) >= 1 =>
                        /\ rects # <<>>
                        /\ \A k \in 1 .. Len(rects) :
                               /\ rects[k].x
                                      = as_i32(MinLeft(GroupGlyphs(gs, g)))
                               /\ rects[k].w = PixelsOf(GroupGlyphs(gs, g))

\* The pixels of a line as thick as the font's metrics m say at font_size:
\* never under one pixel, and rounded up to whole pixels.
ThicknessOf(m, font_size) == as_u32(ceil(max(mul(m.thickness, font_size), 2)))

\* The pixel row of a line the font's metrics m put at font_size, for a
\* baseline at line_y.
RowOf(m, font_size, line_y) == as_i32(line_y - mul(m.offset, font_size))

\* C25: a group with a single underline, a strikethrough and an overline
\* draws exactly three rectangles, underline, strikethrough, overline, all
\* at the group's x and of the group's width: the underline at baseline -
\* underline offset * font size and as thick as the underline, the
\* strikethrough at baseline - strikethrough offset * font size and as thick
\* as the strikethrough, the overline at the run's line_top and as thick as
\* the underline.
C25_ThreeFeaturesThreeRectangles ==
    drawn.some =>
        LET r == layout_run.val
            gs == r.glyphs
        IN  \A g \in Groups(gs) :
                LET gg == GroupGlyphs(gs, g)
                    deco == gg[1].decoration_data.val
                    td == deco.text_decoration
                    fs == gg[1].font_size
                    rects == draw_decoration_group(r, gg, caller_color)
                IN  (/\ td.underline = "Single"
                     /\ td.strikethrough
                     /\ td.overline
                     /\ PixelsOf(gg) >= 1) =>
                        /\ Len(rects) = 3
                        /\ \A k \in 1 .. 3 :
                               /\ rects[k].x = as_i32(MinLeft(gg))
                               /\ rects[k].w = PixelsOf(gg)
                        /\ rects[1].y = RowOf(deco.underline_metrics, fs,
                                              r.line_y)
                        /\ rects[1].h = ThicknessOf(deco.underline_metrics, fs)
                        /\ rects[2].y = RowOf(deco.strikethrough_metrics, fs,
                                              r.line_y)
                        /\ rects[2].h = ThicknessOf(deco.strikethrough_metrics,
                                                    fs)
                        /\ rects[3].y = as_i32(r.line_top)
                        /\ rects[3].h = ThicknessOf(deco.underline_metrics, fs)

\* C26: a double underline draws exactly two rectangles of one x, width,
\* thickness and colour, the second one's top two thicknesses under the
\* first one's, so that the gap between them is as high as they are, for
\* every baseline, also one above the top of the screen.
C26_DoubleUnderlineGap ==
    drawn.some =>
        LET r == layout_run.val
            gs == r.glyphs
        IN  \A g \in Groups(gs) :
                LET gg == GroupGlyphs(gs, g)
                    td == gg[1].decoration_data.val.text_decoration
                    rects == draw_decoration_group(r, gg, caller_color)
                IN  (/\ td.underline = "Double"
                     /\ ~td.strikethrough
                     /\ ~td.overline
                     /\ PixelsOf(gg) >= 1) =>
                        /\ Len(rects) = 2
                        /\ rects[2].x = rects[1].x
                        /\ rects[2].w = rects[1].w
                        /\ rects[2].h = rects[1].h
                        /\ rects[2].color = rects[1].color
                        /\ rects[2].y = rects[1].y + 2 * rects[1].h

\* The features of a rectangle set in the order they are drawn in, each
\* with its explicit colour.
FeaturesOf(td) ==
    (IF td.underline = "Single" THEN <<td.underline_color_opt>>
     ELSE IF td.underline = "Double"
     THEN <<td.underline_color_opt, td.underline_color_opt>>
     ELSE <<>>)
    \o (IF td.strikethrough THEN <<td.strikethrough_color_opt>> ELSE <<>>)
    \o (IF td.overline THEN <<td.overline_color_opt>> ELSE <<>>)

\* C27: each rectangle drawn has its feature's explicit colour when that is
\* set, otherwise the colour of the glyph's span when that is set, otherwise
\* the caller's default colour; the explicit colour of one feature is of no
\* consequence to the rectangle of another.
C27_ColourResolution ==
    drawn.some =>
        LET r == layout_run.val
            gs == r.glyphs
        IN  /\ drawn.val = DrawGroupsFrom(r, 1, caller_color)
            /\ \A g \in Groups(gs) :
                   LET gg == GroupGlyphs(gs, g)
                       explicit == FeaturesOf(
                           gg[1].decoration_data.val.text_decoration)
                       rects == draw_decoration_group(r, gg, caller_color)
                   IN  rects # <<>> =>
                           /\ Len(rects) = Len(explicit)
                           /\ \A k \in 1 .. Len(rects) :
                                  rects[k].color =
                                      IF explicit[k].some THEN explicit[k].val
                                      ELSE IF gg[1].color_opt.some
                                      THEN gg[1].color_opt.val
                                      ELSE caller_color

\* An explicitly red underline, then an underline in the span's green, a
\* strikethrough explicitly cyan over it and an overline in green again,
\* then an underline in the caller's white.
C27_Witness ==
    /\ drawn.some
    /\ caller_color = "white"
    /\ Len(drawn.val) = 5
    /\ [k \in 1 .. 5 |-> drawn.val[k].color]
           = <<"red", "green", "cyan", "green", "white">>

\* C28: no rectangle is drawn 0 wide or 0 high.  A run without glyphs, a
\* run without a decorated glyph and a group that covers no whole pixel
\* draw nothing, and every rectangle drawn is at least 1 high.
C28_NothingDegenerateDrawn ==
    drawn.some =>
        LET r == layout_run.val
            gs == r.glyphs
        IN  /\ \A k \in 1 .. Len(drawn.val) :
                   /\ drawn.val[k].w >= 1
                   /\ drawn.val[k].h >= 1
            /\ gs = <<>> => drawn.val = <<>>
            /\ (\A k \in 1 .. Len(gs) : ~gs[k].decoration_data.some)
                   => drawn.val = <<>>
            /\ (\A g \in Groups(gs) : PixelsOf(GroupGlyphs(gs, g)) = 0)
                   => drawn.val = <<>>
            /\ \A g \in Groups(gs) :
                   PixelsOf(GroupGlyphs(gs, g)) = 0 =>
                       draw_decoration_group(r, GroupGlyphs(gs, g),
                                             caller_color) = <<>>

\* A group half a pixel wide and a group of no width around a group that is
\* drawn, an underline one pixel high at a font size of 2.
C28_Witness ==
    /\ drawn.some
    /\ Cardinality(Groups(layout_run.val.glyphs)) = 3
    /\ Cardinality({ g \in Groups(layout_run.val.glyphs) :
           PixelsOf(GroupGlyphs(layout_run.val.glyphs, g)) = 0 }) = 2
    /\ Len(drawn.val) = 1
    /\ drawn.val[1].h = 1
    /\ drawn.val[1].w = 2

----------------------------------------------------------------------------
(* SpecRenderSteps: render_decoration followed through its loop, called    *)
(* twice on one run with a renderer that records the calls of each         *)
(* invocation.  Its locals group_start and i are group_from and glyph_i;   *)
(* what they hold when an invocation returns is still there when the next  *)
(* one is entered, and only the code's own initialisation replaces it.     *)

\* Entering render_decoration without `let mut group_start = None`: the
\* group that was open when the invocation before returned is still open.
RenderEnter_keeping_group_start ==
    /\ layout_run.some
    /\ render_pc \in {"idle", "done"}
    /\ ~drawn_before.some
    /\ drawn_before' = drawn
    /\ drawn' = Some(<<>>)
    /\ IF layout_run.val.glyphs = <<>>
       THEN /\ render_pc' = "done"
            /\ UNCHANGED <<group_from, glyph_i>>
       ELSE /\ UNCHANGED group_from
            /\ glyph_i' = 0
            /\ render_pc' = "loop"
    /\ UNCHANGED <<layout_run, caller_color, cursors, highlit, line_vars,
                   edit_vars, iter_vars, rich_vars>>

\* render_decoration is called: it returns at once on a run without glyphs,
\* and otherwise sets group_start to None and starts its loop at i = 0.
RenderEnter ==
    /\ layout_run.some
    /\ render_pc \in {"idle", "done"}
    /\ ~drawn_before.some
    /\ drawn_before' = drawn
    /\ drawn' = Some(<<>>)
    /\ IF layout_run.val.glyphs = <<>>
       THEN /\ render_pc' = "done"
            /\ UNCHANGED <<group_from, glyph_i>>
       ELSE /\ group_from' = None
            /\ glyph_i' = 0
            /\ render_pc' = "loop"
    /\ UNCHANGED <<layout_run, caller_color, cursors, highlit, line_vars,
                   edit_vars, iter_vars, rich_vars>>

\* One turn of the loop, for glyph i.  Reading run.glyphs[i - 1] at i = 0
\* and slicing glyphs[gs..i] with gs > i panic.
RenderGlyph ==
    /\ render_pc = "loop"
    /\ glyph_i < Len(layout_run.val.glyphs)
    /\ LET r == layout_run.val
           glyph == r.glyphs[glyph_i + 1]
       IN  IF group_from.some /\ (glyph_i = 0 \/ group_from.val > glyph_i)
           THEN /\ render_pc' = "panicked"
                /\ UNCHANGED <<drawn, group_from, glyph_i>>
           ELSE
           LET start_new_group ==
                   IF ~group_from.some THEN TRUE
                   ELSE glyph.decoration_data
                            # r.glyphs[glyph_i].decoration_data
           IN  /\ drawn' = IF start_new_group /\ group_from.some
                           THEN Some(drawn.val \o draw_decoration_group(r,
                                    SubSeq(r.glyphs, group_from.val + 1,
                                           glyph_i), caller_color))
                           ELSE drawn
               /\ group_from' = IF start_new_group
                                THEN IF glyph.decoration_data.some
                                     THEN Some(glyph_i) ELSE None
                                ELSE group_from
               /\ glyph_i' = glyph_i + 1
               /\ render_pc' = "loop"
    /\ UNCHANGED <<layout_run, caller_color, drawn_before, cursors, highlit,
                   line_vars, edit_vars, iter_vars, rich_vars>>

\* The loop is over: the group still open is drawn and render_decoration
\* returns.
RenderReturn ==
    /\ render_pc = "loop"
    /\ glyph_i = Len(layout_run.val.glyphs)
    /\ drawn' = IF group_from.some
                THEN Some(drawn.val \o draw_decoration_group(layout_run.val,
                         SubSeq(layout_run.val.glyphs, group_from.val + 1,
                                Len(layout_run.val.glyphs)), caller_color))
                ELSE drawn
    /\ render_pc' = "done"
    /\ UNCHANGED <<layout_run, caller_color, drawn_before, group_from,
                   glyph_i, cursors, highlit, line_vars, edit_vars, iter_vars,
                   rich_vars>>

RenderStepsNext == RenderEnter \/ RenderGlyph \/ RenderReturn

SpecRenderSteps == RenderInit /\ [][RenderStepsNext]_vars

----------------------------------------------------------------------------
(* SpecHighlight: LayoutRun::highlight called on a run with a range of      *)
(* cursors.  highlight borrows the run immutably, so one call is followed. *)

\* Undecorated glyphs, two pixels wide or of no width.
PlainKinds ==
    { [w |-> w, font_size |-> 4, color_opt |-> None,
       decoration_data |-> None] : w \in {0, 4} }

\* The glyphs with the first two of them made one cluster: both start where
\* the first started and end where the second ended.
AsCluster(glyphs) ==
    [k \in 1 .. Len(glyphs) |->
        IF k <= 2 THEN [glyphs[k] EXCEPT !.start = glyphs[1].start,
                                         !.end = glyphs[2].end]
        ELSE glyphs[k]]

HighlightRuns ==
    { LayoutRun(0, rtl, PlacedGlyphs(kinds, rtl, 0), 30, 20) :
        kinds \in UNION { [1 .. k -> PlainKinds] : k \in 0 .. MaxGlyphs },
        rtl \in BOOLEAN }
    \cup
    { LayoutRun(0, rtl, AsCluster(PlacedGlyphs(kinds, rtl, 0)), 30, 20) :
        kinds \in UNION { [1 .. k -> PlainKinds] : k \in 2 .. MaxGlyphs },
        rtl \in BOOLEAN }

\* Cursors of the run's line and of the line after it.
Cursors ==
    { Cursor(l, i, a) : l \in 0 .. 1, i \in 0 .. MaxGlyphs,
                        a \in {"Before", "After"} }

HighlightInit ==
    /\ LineIdle
    /\ NoIter
    /\ layout_run \in { Some(r) : r \in HighlightRuns }
    /\ caller_color = "black"
    /\ drawn = None
    /\ drawn_before = None
    /\ cursors = None
    /\ highlit = None
    /\ LoopIdle

\* One call of run.highlight(cursor_start, cursor_end).
Highlight(cursor_start, cursor_end) ==
    /\ layout_run.some
    /\ ~cursors.some
    /\ cursors' = Some([cursor_start |-> cursor_start,
                        cursor_end |-> cursor_end])
    /\ highlit' = highlight(layout_run.val, cursor_start, cursor_end)
    /\ UNCHANGED <<layout_run, caller_color, drawn, drawn_before, loop_vars,
                   line_vars, edit_vars, iter_vars, rich_vars>>

HighlightNext ==
    \E cursor_start \in Cursors, cursor_end \in Cursors :
        Highlight(cursor_start, cursor_end)

SpecHighlight == HighlightInit /\ [][HighlightNext]_vars

\* The glyph edges of a run in the order highlight comes by them, each with
\* its cursor and its x: a glyph's left-edge cursor, then its right-edge
\* cursor.
EdgesOf(r) ==
    [k \in 1 .. 2 * Len(r.glyphs) |->
        LET glyph == r.glyphs[(k + 1) \div 2]
        IN  IF k % 2 = 1
            THEN [cursor |-> cursor_from_glyph_left(r, glyph),
                  x |-> IF r.rtl THEN glyph.x + glyph.w ELSE glyph.x]
            ELSE [cursor |-> cursor_from_glyph_right(r, glyph),
                  x |-> IF r.rtl THEN glyph.x ELSE glyph.x + glyph.w]]

\* The edges whose cursor lies in the range handed to highlight.
Matching(r, c) ==
    { k \in 1 .. 2 * Len(r.glyphs) :
          /\ cursor_le(c.cursor_start, EdgesOf(r)[k].cursor)
          /\ cursor_le(EdgesOf(r)[k].cursor, c.cursor_end) }

Least(S) == CHOOSE m \in S : \A n \in S : m <= n
Greatest(S) == CHOOSE m \in S : \A n \in S : m >= n

\* C29, without its last clause: highlight returns None exactly when no
\* glyph of the run has a left-edge or right-edge cursor in the range;
\* otherwise it returns (x_left, width) with width >= 0, never failing to
\* find the end, x_left the smaller and x_left + width the larger of the x
\* of the first and of the last matching edge.
C29_HighlightSpan ==
    cursors.some =>
        LET r == layout_run.val
            in == Matching(r, cursors.val)
        IN  /\ (highlit = None) <=> (in = {})
            /\ in # {} =>
                   LET x_first == EdgesOf(r)[Least(in)].x
                       x_last == EdgesOf(r)[Greatest(in)].x
                   IN  /\ highlit.some
                       /\ highlit.val # "panic"
                       /\ highlit.val[2] >= 0
                       /\ highlit.val[1] = IF x_first <= x_last THEN x_first
                                           ELSE x_last
                       /\ highlit.val[1] + highlit.val[2]
                              = IF x_first <= x_last THEN x_last ELSE x_first

\* C29: what C29_HighlightSpan says, and the width is 0 when cursor_start
\* equals cursor_end.
C29_HighlightSpanAndEmptyRange ==
    /\ C29_HighlightSpan
    /\ (/\ cursors.some
        /\ cursors.val.cursor_start = cursors.val.cursor_end
        /\ highlit.some) => highlit.val[2] = 0

\* The colour and the height of the rectangles of one rectangle set, for
\* a glyph's font size and colour.
DrawnWith(deco, font_size, color_opt, default) ==
    LET td == deco.text_decoration
        colour(explicit) == IF explicit.some THEN explicit.val
                            ELSE IF color_opt.some THEN color_opt.val
                            ELSE default
        under == [color |-> colour(td.underline_color_opt),
                  h |-> ThicknessOf(deco.underline_metrics, font_size)]
    IN  (IF td.underline = "Single" THEN <<under>>
         ELSE IF td.underline = "Double" THEN <<under, under>> ELSE <<>>)
        \o (IF td.strikethrough
            THEN <<[color |-> colour(td.strikethrough_color_opt),
                    h |-> ThicknessOf(deco.strikethrough_metrics, font_size)]>>
            ELSE <<>>)
        \o (IF td.overline
            THEN <<[color |-> colour(td.overline_color_opt),
                    h |-> ThicknessOf(deco.underline_metrics, font_size)]>>
            ELSE <<>>)

\* C31: glyphs are grouped by their decoration descriptors alone.  Two
\* neighbours with equal descriptors lie in one group whatever their colour
\* and font size, what is drawn is what these groups draw, and the
\* rectangles of a group have the colour and the thickness that the first
\* glyph the group stores gives them, and lie where its font size puts them.
C31_GroupDrawnAsFirstGlyph ==
    drawn.some =>
        LET r == layout_run.val
            gs == r.glyphs
        IN  /\ \A k \in 1 .. Len(gs) - 1 :
                   (/\ gs[k].decoration_data.some
                    /\ gs[k].decoration_data = gs[k + 1].decoration_data)
                       => \E g \in Groups(gs) : g[1] <= k /\ k + 1 <= g[2]
            /\ drawn.val = DrawGroupsFrom(r, 1, caller_color)
            /\ \A g \in Groups(gs) :
                   LET gg == GroupGlyphs(gs, g)
                       deco == gg[1].decoration_data.val
                       rects == draw_decoration_group(r, gg, caller_color)
                   IN  rects # <<>> =>
                           /\ [k \in 1 .. Len(rects) |->
                                  [color |-> rects[k].color, h |-> rects[k].h]]
                                  = DrawnWith(deco, gg[1].font_size,
                                              gg[1].color_opt, caller_color)
                           /\ deco.text_decoration.underline # "None" =>
                                  rects[1].y = RowOf(deco.underline_metrics,
                                                     gg[1].font_size, r.line_y)

\* One underline, in blue and two pixels thick, under a blue glyph of font
\* size 3 and the uncoloured glyph of font size 2 stored after it.
C31_Witness ==
    /\ drawn.some
    /\ caller_color = "white"
    /\ Len(layout_run.val.glyphs) = 2
    /\ Groups(layout_run.val.glyphs) = {<<1, 2>>}
    /\ layout_run.val.glyphs[1].font_size = 6
    /\ layout_run.val.glyphs[2].font_size = 4
    /\ layout_run.val.glyphs[1].color_opt = Some("blue")
    /\ layout_run.val.glyphs[2].color_opt = None
    /\ Len(drawn.val) = 1
    /\ drawn.val[1].color = "blue"
    /\ drawn.val[1].h = 2
    /\ drawn.val[1].w = 3

----------------------------------------------------------------------------
(* SpecTwins: two iterators built with the same arguments over the same    *)
(* lines, each advanced on its own.                                        *)

TwinInit ==
    /\ LineIdle
    /\ lines \in SlicesUpTo(MaxParas)
    /\ started_at \in 0 .. MaxParas
    /\ iter \in {LayoutRunIterNew(h, lh, sc, started_at) :
                    h \in HeightOpts, lh \in LineHeights, sc \in Scrolls}
    /\ item = None
    /\ yielded = <<>>
    /\ ended = "no"
    /\ twin = LayoutRunIterNew(iter.height_opt, iter.line_height, iter.scroll,
                               started_at)
    /\ twin_yielded = <<>>
    /\ rich = None
    /\ RenderIdle

\* One call of next() on the second iterator.
TwinNext ==
    /\ LET o == next(lines, twin)
       IN  /\ twin' = o.iter
           /\ twin_yielded' = IF o.item.some
                              THEN Append(twin_yielded,
                                          [line_i |-> o.item.val.line_i,
                                           layout_i |-> o.layout_i,
                                           run |-> o.item.val])
                              ELSE twin_yielded
    /\ UNCHANGED <<lines, started_at, iter, item, yielded, ended, line_vars,
                   edit_vars, rich_vars, render_vars>>

TwinsNext == IterNext \/ TwinNext

SpecTwins == TwinInit /\ [][TwinsNext]_vars

IsPrefix(s, t) == Len(s) <= Len(t) /\ SubSeq(t, 1, Len(s)) = s

\* C32: an iterator leaves the lines it walks as they are; of two
\* iterators built with the same lines, height, default line height, scroll
\* and start, each advanced on its own, the runs of one are the first runs
\* of the other, and the same runs once both stand at the same place; and
\* an iterator built with start k stands, before its first next(), at the
\* first LayoutLine of line k with a running top of 0, so that the first
\* run it yields is of line k or later and has for line_top the heights of
\* the LayoutLines from line k on before it, less the scroll.
C32_IndependentAndRestartable ==
    /\ [][lines' = lines]_vars
    /\ [](IsPrefix(yielded, twin_yielded) \/ IsPrefix(twin_yielded, yielded))
    /\ [](iter = twin => yielded = twin_yielded)
    /\ []((yielded = <<>> /\ ended = "no") =>
              /\ iter.line_i = started_at
              /\ iter.layout_i = 0
              /\ iter.line_top = 0
              /\ iter.total_height = 0)
    /\ [][(yielded = <<>> /\ ended = "no" /\ item'.some) =>
              /\ item'.val.line_i >= started_at
              /\ item'.val.line_top
                     = HeightsBefore(started_at, item'.val.line_i,
                                     iter'.layout_i - 1) - iter.scroll]_vars

\* Both iterators, started at the second line, have yielded its two runs,
\* the first of them at the top.
C32_Witness ==
    /\ started_at = 1
    /\ Len(yielded) = 2
    /\ twin_yielded = yielded
    /\ yielded[1].line_i = 1
    /\ yielded[1].layout_i = 0
    /\ yielded[1].run.line_top = 0
    /\ yielded[2].run.line_top > 0

============================================================================
